---- MODULE Spec2Model ----
(***************************************************************************)
(* FlipDish MCP server: the Session Store (state.ts), the gateway's        *)
(* request/response shapes (flipdish-client.ts), the tool executor with    *)
(* its session-expiry retry and CallTool boundary, and the resource        *)
(* resolver (server.ts).                                                   *)
(*                                                                         *)
(* A tool call is one action: the handler runs to completion, drawing the  *)
(* backend's replies and the condition of the disk from small sets.  The   *)
(* record `last` keeps what the call did (store before, backend requests,  *)
(* store writes, the attempts and the response), so that properties of a   *)
(* call are state predicates over the state in which it has responded.     *)
(***************************************************************************)
EXTENDS Integers, Sequences, FiniteSets, TLC

VARIABLES
    state,       \* state.ts: the in-memory SessionState
    cacheFile,   \* .session_cache.json on disk
    pc,          \* "idle": waiting for a request; "responded": a tool response is
                 \* in flight; "served": a resource response is in flight;
                 \* "started": the process has just been started again; "called":
                 \* a gateway operation called directly has settled
    last,        \* the tool call that produced the response in flight, or the
                 \* restart that has just happened
    issued,      \* the remote service: the chat id it issued last
    faults,      \* number of tool calls served while the disk refused writes
    searchOrigin, \* "none": no search_menu call was ever made; "searched":
                 \* search_menu was called since the process started; else
                 \* "restored" or "empty": what startup found in the cache
    verified,    \* token of the latest successful verify_otp, while this process
                 \* or the snapshot it was started from holds it
    inflight,    \* the tool calls that run interleaved, each at its await point
    walk,        \* MenuItemCard: the loop that builds optionSets during a render
    card,        \* MenuItemCard: its props, its useState values, its pending
                 \* timers and its callTool promise
    login,       \* LoginWidget: its useState values and its pending promises
    sessions,    \* server.ts: the map from transport id to SessionRecord
    transports   \* the SSE transports created so far, and the last HTTP response

\* the widgets and the transport layer
widgets == <<walk, card, login, sessions, transports>>

vars == <<state, cacheFile, pc, last, issued, faults, searchOrigin, verified, inflight,
          walk, card, login, sessions, transports>>

-----------------------------------------------------------------------------
(* Bounds of the model *)

\* menu item ids are 1..MaxItem; a request may also name MaxItem + 1
MaxItem == 2
\* at most this many tool calls meet a disk that refuses writes
MaxDiskFaults == 1
\* the option sets a menu item can point to are 1..MaxSets
MaxSets == 3
\* auto-advance timers of a card that can be pending together
MaxTimers == 2
\* add_to_basket calls one card issues
MaxAdds == 2
\* promises and timers the login widget has started
MaxTasks == 3

-----------------------------------------------------------------------------
(* JavaScript values *)

Null == "<null>"
Undefined == "<undefined>"

\* !v for the values a chat id or a token can hold
Falsy(v) == v = Null \/ v = Undefined \/ v = ""

\* token || undefined
OrUndefined(v) == IF Falsy(v) THEN Undefined ELSE v

\* a || b on strings
OrElse(a, b) == IF Falsy(a) THEN b ELSE a

\* String.prototype.includes
Includes(s, m) ==
    \E i \in 1..(Len(s) - Len(m) + 1) : SubSeq(s, i, i + Len(m) - 1) = m

\* Array.prototype.join(sep) over numbers
RECURSIVE Join(_, _)
Join(xs, sep) ==
    IF Len(xs) = 0 THEN ""
    ELSE IF Len(xs) = 1 THEN ToString(xs[1])
    ELSE ToString(xs[1]) \o sep \o Join(Tail(xs), sep)

\* Array.prototype.map(item => item.menuItemId)
MapIds(items) == [i \in 1..Len(items) |-> items[i].menuItemId]

\* Array.prototype.includes
ArrIncludes(xs, x) == \E i \in 1..Len(xs) : xs[i] = x

\* JSON values of request arguments, tagged with their typeof
Str(s) == [t |-> "string", s |-> s, n |-> 0, a |-> <<>>]
Num(n) == [t |-> "number", s |-> "", n |-> n, a |-> <<>>]
Arr(a) == [t |-> "array", s |-> "", n |-> 0, a |-> a]
Undef == [t |-> "undefined", s |-> "", n |-> 0, a |-> <<>>]

-----------------------------------------------------------------------------
(* Session Store *)

DefaultState ==
    [chatId |-> Null, authToken |-> Null, phoneNumber |-> Null, searchResults |-> <<>>]

NoFile == [kind |-> "absent", json |-> DefaultState]
CorruptFile == [kind |-> "corrupt", json |-> DefaultState]

\* JSON.stringify(state, null, 2): null, strings, numbers and arrays of plain
\* objects are written as they are; a key whose value is undefined is left out
Stringify(st) ==
    LET Written == {k \in DOMAIN st :
                      ~(k \in {"chatId", "authToken", "phoneNumber"} /\ st[k] = Undefined)}
    IN  [kind |-> "json", json |-> [k \in Written |-> st[k]]]

\* variant: { ...cached, ...state }, the defaults win over the cache
MergeDefaultsWin(defaults, cached) == defaults

\* { ...state, ...cached }
Merge(defaults, cached) ==
    [k \in DOMAIN defaults |-> IF k \in DOMAIN cached THEN cached[k] ELSE defaults[k]]

\* variant: the cache is not read at startup
LoadStateDefaults(file) == DefaultState

\* the module body of state.ts: defaults, overlaid by the cache when it exists and parses
LoadState(file) ==
    IF file.kind = "json" THEN Merge(DefaultState, file.json) ELSE DefaultState

\* the condition of the disk during one tool call
DiskModes == {"ok", "fail_keep", "fail_truncate"}

\* fs.writeFileSync under try/catch: the file after the attempt to write st
WriteFile(file, st, disk) ==
    CASE disk = "ok" -> Stringify(st)
      [] disk = "fail_keep" -> file
      [] OTHER -> CorruptFile

\* The running call: the store, the file, the disk, and what was done so far
\* (requests sent to the backend, attempts to write the cache).
SaveState(env) ==
    [env EXCEPT !.file = WriteFile(env.file, env.state, env.disk),
                !.writes = Append(@, env.disk = "ok")]

SetChatId(env, chatId) ==
    SaveState([env EXCEPT !.state.chatId = chatId,
                          !.setters = Append(@, [fn |-> "setChatId", chatId |-> chatId])])

\* variant: the phone number is not stored with the token
SetAuthTokenOnly(env, token, phone) ==
    SaveState([env EXCEPT !.state.authToken = token,
                          !.setters = Append(@, [fn |-> "setAuthToken", token |-> token, phone |-> phone])])

SetAuthToken(env, token, phone) ==
    SaveState([env EXCEPT !.state.authToken = token,
                          !.state.phoneNumber = phone,
                          !.setters = Append(@, [fn |-> "setAuthToken", token |-> token, phone |-> phone])])

ClearAuth(env) ==
    SaveState([env EXCEPT !.state.authToken = Null,
                          !.state.phoneNumber = Null,
                          !.setters = Append(@, [fn |-> "clearAuth"])])

\* variant: the search results are kept in memory only
SetSearchResultsUnsaved(env, results) ==
    [env EXCEPT !.state.searchResults = results,
                !.setters = Append(@, [fn |-> "setSearchResults", results |-> results])]

SetSearchResults(env, results) ==
    SaveState([env EXCEPT !.state.searchResults = results,
                          !.setters = Append(@, [fn |-> "setSearchResults", results |-> results])])

IsAuthenticated(st) == ~Falsy(st.authToken)

-----------------------------------------------------------------------------
(* Backend Gateway (flipdish-client.ts) and the replies of the remote service *)

Marker == "Call context not found"

Config == [appId |-> "app-1", storeId |-> 1, bearerToken |-> "wrapper-bearer"]

\* a JSON null where a number may stand
JNull == [t |-> "null", s |-> "", n |-> 0, a |-> <<>>]

\* non-2xx replies of the remote service: the status and the raw body text
ErrorReplies ==
    {[status |-> 500, text |-> "Internal Server Error"],
     [status |-> 400, text |-> "{\"error\":\"Call context not found for chat\"}"]}

\* `API Error (${response.status}): ${error}`
ApiError(status, text) == "API Error (" \o ToString(status) \o "): " \o text

\* variant: a refused request is sent once more before the error is thrown
CallApiRetry(env, action, args, auth, bodies) ==
    LET Sent(e, status, reply) ==
            [e EXCEPT !.calls = Append(@,
                [action |-> action, args |-> args,
                 authorization |-> OrElse(auth, Config.bearerToken),
                 status |-> status, reply |-> reply])]
    IN  {[env |-> Sent(env, 200, b), ok |-> TRUE, val |-> b] : b \in bodies}
        \cup {[env |-> Sent(Sent(env, e.status, e.text), e.status, e.text), ok |-> FALSE,
                msg |-> ApiError(e.status, e.text)] : e \in ErrorReplies}

\* callApi: one POST {action, args} with the bearer credential; the reply is
\* one of `bodies` (2xx) or one of ErrorReplies (thrown)
CallApi(env, action, args, auth, bodies) ==
    LET Sent(status, reply) ==
            [env EXCEPT !.calls = Append(@,
                [action |-> action, args |-> args,
                 authorization |-> OrElse(auth, Config.bearerToken),
                 status |-> status, reply |-> reply])]
    IN  {[env |-> Sent(200, b), ok |-> TRUE, val |-> b] : b \in bodies}
        \cup {[env |-> Sent(e.status, e.text), ok |-> FALSE, msg |-> ApiError(e.status, e.text)] :
                e \in ErrorReplies}

ChatIds == {"chat-A", "chat-B"}

ItemIds == 1..MaxItem

ItemName(i) == "Item " \o ToString(i)

MenuItem(i) == [menuItemId |-> i, name |-> ItemName(i)]

\* the item sequence from a towards b, ascending or descending
Run(a, b) ==
    IF a <= b THEN [i \in 1..(b - a + 1) |-> MenuItem(a + i - 1)]
    ELSE [i \in 1..(a - b + 1) |-> MenuItem(a - i + 1)]

\* what a menu search can find: nothing, every item (highest id first), one item
SearchHits == {<<>>, Run(MaxItem, 1), Run(MaxItem, MaxItem)}

\* the two wire shapes of a search reply, and an object without items
SearchBodies ==
    {[shape |-> "array", items |-> xs] : xs \in SearchHits}
    \cup {[shape |-> "object", items |-> xs] : xs \in SearchHits}
    \cup {[shape |-> "object_no_items"]}

Baskets ==
    {[basketMenuItems |-> <<>>, totalPrice |-> 0],
     [basketMenuItems |-> <<[menuItemId |-> 1, name |-> ItemName(1), price |-> 9, quantity |-> 2]>>,
      totalPrice |-> 18]}

Tokens == {"token-1", "token-2"}

SubmitBodies ==
    {[success |-> TRUE, orderId |-> "order-77", leadTimePrompt |-> "Ready in 20 minutes", error |-> Undefined],
     [success |-> FALSE, orderId |-> Undefined, leadTimePrompt |-> Undefined, error |-> "Basket is empty"],
     [success |-> FALSE, orderId |-> Undefined, leadTimePrompt |-> Undefined, error |-> Undefined],
     [success |-> FALSE, orderId |-> Undefined, leadTimePrompt |-> Undefined, error |-> Marker]}

SendBodies ==
    {[success |-> TRUE, error |-> Undefined],
     [success |-> FALSE, error |-> "Invalid phone number"],
     [success |-> FALSE, error |-> Undefined],
     [success |-> FALSE, error |-> Marker \o " for sms"]}

VerifyBodies ==
    {[success |-> TRUE, token |-> t, error |-> Undefined] : t \in Tokens}
    \cup {[success |-> TRUE, token |-> Undefined, error |-> Undefined],
          [success |-> TRUE, token |-> "", error |-> Undefined],
          [success |-> FALSE, token |-> "token-1", error |-> "Wrong code"],
          [success |-> FALSE, token |-> Undefined, error |-> Undefined],
          [success |-> FALSE, token |-> Undefined, error |-> "Session lost: " \o Marker]}

\* createSession(token?); the remote service does not issue the same id twice in a row
CreateSession(env, token) ==
    {IF r.ok THEN [r EXCEPT !.env.issued = r.val.chatId] ELSE r :
        r \in CallApi(env, "createSession",
                      <<Config.appId, Config.storeId, OrElse(token, Null), Config.bearerToken>>,
                      Undefined, {[chatId |-> c] : c \in ChatIds \ {env.issued}})}

\* variant: only a bare array is taken for a search result
NormalizeSearchArrayOnly(body) ==
    IF body.shape = "array" THEN body.items ELSE <<>>

\* Array.isArray(result) ? result : (result.items || []); an empty array is
\* truthy, a missing items field is undefined
NormalizeSearch(body) ==
    IF body.shape = "array" THEN body.items
    ELSE IF "items" \in DOMAIN body THEN body.items
    ELSE <<>>

\* searchMenu(chatId, query, token?)
SearchMenu(env, chatId, query, token) ==
    {IF r.ok THEN [r EXCEPT !.val = NormalizeSearch(@)] ELSE r :
        r \in CallApi(env, "searchMenu", <<chatId, query>>, token, SearchBodies)}

GetBasket(env, chatId, token) ==
    CallApi(env, "getBasket", <<chatId>>, token, Baskets)

UpdateBasket(env, chatId, updates, token) ==
    CallApi(env, "updateBasket", <<chatId, updates>>, token, {[success |-> TRUE]})

\* what the remote service answers to clearBasket; the tool does not read it
ClearBodies == {[success |-> TRUE], [success |-> FALSE]}

ClearBasket(env, chatId, token) ==
    CallApi(env, "clearBasket", <<chatId, OrElse(token, Null)>>, Undefined, ClearBodies)

SubmitOrder(env, chatId, token, paymentAccountId) ==
    CallApi(env, "submitOrder",
            <<chatId, token, IF paymentAccountId.t = "number" /\ paymentAccountId.n # 0
                             THEN paymentAccountId ELSE JNull,
              Config.appId, Config.bearerToken>>,
            Undefined, SubmitBodies)

SendOTP(env, phoneNumber) ==
    CallApi(env, "sendOTP", <<phoneNumber>>, Undefined, SendBodies)

VerifyOTP(env, phoneNumber, code, chatId) ==
    CallApi(env, "verifyOTP", <<phoneNumber, code, OrElse(chatId, Null), Config.appId>>,
            Undefined, VerifyBodies)

\* updateBasketItems: its own POST to /tools/basket/update-items with the
\* user's token as the credential and {chatId, ...updates} as the payload
UpdateBasketItems(env, chatId, updates, token) ==
    LET Sent(status, reply) ==
            [env EXCEPT !.calls = Append(@,
                [action |-> "/tools/basket/update-items", args |-> <<chatId, updates>>,
                 authorization |-> token, status |-> status, reply |-> reply])]
    IN  {[env |-> Sent(200, b), ok |-> TRUE, val |-> b] : b \in Baskets}
        \cup {[env |-> Sent(e.status, e.text), ok |-> FALSE,
                msg |-> "API Error (" \o ToString(e.status) \o "): " \o e.text] :
                e \in ErrorReplies}

GetRestaurantStatus(env) ==
    CallApi(env, "getRestaurantStatus", <<Config.storeId>>, Undefined,
            {[isOpen |-> TRUE], [isOpen |-> FALSE]})

GetPaymentAccounts(env, token) ==
    CallApi(env, "getPaymentAccounts", <<token, Config.appId>>, Undefined,
            {[accounts |-> <<>>], [accounts |-> <<[paymentAccountId |-> 5]>>]})

-----------------------------------------------------------------------------
(* Tool input parsers (zod) *)

\* the typeof name zod reports for a JSON value
ReceivedType(v) == v.t

\* one field of a z.object: the issues zod raises for it
FieldIssues(args, f) ==
    LET v == args[f.key] IN
    IF v.t = f.type \/ (f.optional /\ v.t = "undefined") THEN <<>>
    ELSE <<"{\"code\":\"invalid_type\",\"expected\":\"" \o f.type
           \o "\",\"received\":\"" \o ReceivedType(v)
           \o "\",\"path\":[\"" \o f.key \o "\"],\"message\":\""
           \o (IF v.t = "undefined" THEN "Required"
               ELSE "Expected " \o f.type \o ", received " \o ReceivedType(v))
           \o "\"}">>

RECURSIVE SchemaIssues(_, _)
SchemaIssues(args, fields) ==
    IF fields = <<>> THEN <<>>
    ELSE FieldIssues(args, Head(fields)) \o SchemaIssues(args, Tail(fields))

RECURSIVE JoinStr(_, _)
JoinStr(xs, sep) ==
    IF Len(xs) = 0 THEN ""
    ELSE IF Len(xs) = 1 THEN xs[1]
    ELSE xs[1] \o sep \o JoinStr(Tail(xs), sep)

\* ZodError.message: the issues as JSON
ZodMessage(issues) == "[" \o JoinStr(issues, ",") \o "]"

Field(key, type, optional) == [key |-> key, type |-> type, optional |-> optional]

searchMenuSchema == <<Field("query", "string", FALSE)>>
addToBasketSchema ==
    <<Field("menuItemId", "number", FALSE), Field("quantity", "number", TRUE),
      Field("menuItemOptionSetItems", "array", TRUE)>>
removeFromBasketSchema ==
    <<Field("menuItemId", "number", FALSE), Field("quantity", "number", TRUE)>>
submitOrderSchema == <<Field("paymentAccountId", "number", TRUE)>>
sendOtpSchema == <<Field("phoneNumber", "string", FALSE)>>
verifyOtpSchema == <<Field("phoneNumber", "string", FALSE), Field("code", "string", FALSE)>>

\* schema.parse(args): the arguments, or a thrown ZodError
Parse(schema, args) ==
    LET issues == SchemaIssues(args, schema) IN
    IF issues = <<>> THEN [ok |-> TRUE, val |-> args]
    ELSE [ok |-> FALSE, msg |-> ZodMessage(issues)]

-----------------------------------------------------------------------------
(* Tool Executor (server.ts) *)

WIDGET_URI == "ui://widgets/menu-carousel"
LOGIN_WIDGET_URI == "ui://widgets/login"
BASKET_WIDGET_URI == "ui://widgets/basket"

ToolNames ==
    {"search_menu", "add_to_basket", "view_basket", "remove_from_basket",
     "clear_basket", "submit_order", "send_otp", "verify_otp"}

\* outcomes of a dispatch: a returned result or a thrown Error
Return(env, result) == [env |-> env, threw |-> FALSE, result |-> result]
Throw(env, msg) == [env |-> env, threw |-> TRUE, msg |-> msg]

\* await of a gateway call inside a dispatch: a failed call throws out of it
Await(replies, Then(_)) ==
    UNION {IF r.ok THEN Then(r) ELSE {Throw(r.env, r.msg)} : r \in replies}

Text(t) == <<[type |-> "text", text |-> t]>>

\* number.toFixed(2), for whole amounts
ToFixed2(n) == ToString(n) \o ".00"

\* variant: the new session is created with the auth token the store holds
EnsureSessionWithToken(env) ==
    IF ~Falsy(env.state.chatId)
    THEN {[env |-> env, ok |-> TRUE, val |-> env.state.chatId]}
    ELSE {IF r.ok
          THEN [env |-> SetChatId(r.env, r.val.chatId), ok |-> TRUE, val |-> r.val.chatId]
          ELSE r : r \in CreateSession(env, OrUndefined(env.state.authToken))}

\* ensureSession: the stored chat id, or a new guest session whose id is stored
EnsureSession(env) ==
    IF ~Falsy(env.state.chatId)
    THEN {[env |-> env, ok |-> TRUE, val |-> env.state.chatId]}
    ELSE {IF r.ok
          THEN [env |-> SetChatId(r.env, r.val.chatId), ok |-> TRUE, val |-> r.val.chatId]
          ELSE r : r \in CreateSession(env, Undefined)}

\* variant: the items found are added to the cache, which keeps what it held
SearchMenuCaseAppend(env, chatId, token, args) ==
    LET p == Parse(searchMenuSchema, args) IN
    IF ~p.ok THEN {Throw(env, p.msg)}
    ELSE LET Found(r) ==
                 LET items == r.val
                     n == ToString(Len(items)) IN
                 {Return(SetSearchResults(r.env, r.env.state.searchResults \o items),
                    [content |-> Text("Found " \o n \o " menu items"),
                     structuredContent |-> [items |-> items],
                     meta |-> [outputTemplate |-> WIDGET_URI,
                               invoking |-> "Searching menu...",
                               invoked |-> "Found " \o n \o " items"]])}
         IN  Await(SearchMenu(env, chatId, p.val.query.s, OrUndefined(token)), Found)

\* variant: a search that finds nothing leaves the cache as it was
SearchMenuCaseKeepOnEmpty(env, chatId, token, args) ==
    LET p == Parse(searchMenuSchema, args) IN
    IF ~p.ok THEN {Throw(env, p.msg)}
    ELSE LET Found(r) ==
                 LET items == r.val
                     n == ToString(Len(items)) IN
                 {Return(IF Len(items) > 0 THEN SetSearchResults(r.env, items) ELSE r.env,
                    [content |-> Text("Found " \o n \o " menu items"),
                     structuredContent |-> [items |-> items],
                     meta |-> [outputTemplate |-> WIDGET_URI,
                               invoking |-> "Searching menu...",
                               invoked |-> "Found " \o n \o " items"]])}
         IN  Await(SearchMenu(env, chatId, p.val.query.s, OrUndefined(token)), Found)

\* variant: the cache is emptied before the search is sent
SearchMenuCaseClearFirst(env, chatId, token, args) ==
    LET p == Parse(searchMenuSchema, args) IN
    IF ~p.ok THEN {Throw(env, p.msg)}
    ELSE LET Found(r) ==
                 LET items == r.val
                     n == ToString(Len(items)) IN
                 {Return(SetSearchResults(r.env, items),
                    [content |-> Text("Found " \o n \o " menu items"),
                     structuredContent |-> [items |-> items],
                     meta |-> [outputTemplate |-> WIDGET_URI,
                               invoking |-> "Searching menu...",
                               invoked |-> "Found " \o n \o " items"]])}
         IN  Await(SearchMenu(SetSearchResults(env, <<>>), chatId, p.val.query.s,
                              OrUndefined(token)), Found)

SearchMenuCase(env, chatId, token, args) ==
    LET p == Parse(searchMenuSchema, args) IN
    IF ~p.ok THEN {Throw(env, p.msg)}
    ELSE LET Found(r) ==
                 LET items == r.val
                     n == ToString(Len(items)) IN
                 {Return(SetSearchResults(r.env, items),
                    [content |-> Text("Found " \o n \o " menu items"),
                     structuredContent |-> [items |-> items],
                     meta |-> [outputTemplate |-> WIDGET_URI,
                               invoking |-> "Searching menu...",
                               invoked |-> "Found " \o n \o " items"]])}
         IN  Await(SearchMenu(env, chatId, p.val.query.s, OrUndefined(token)), Found)

\* variant: the id check runs against an empty cache too
InvalidMenuItemIdUnguarded(searchResults, menuItemId) ==
    LET validIds == MapIds(searchResults) IN
    IF ~ArrIncludes(validIds, menuItemId)
    THEN "Invalid menuItemId. Valid IDs: " \o Join(validIds, ", ")
    ELSE Null

\* variant: the ids are joined without the space
InvalidMenuItemIdComma(searchResults, menuItemId) ==
    IF Len(searchResults) > 0
    THEN LET validIds == MapIds(searchResults) IN
         IF ~ArrIncludes(validIds, menuItemId)
         THEN "Invalid menuItemId. Valid IDs: " \o Join(validIds, ",")
         ELSE Null
    ELSE Null

\* the id check of add_to_basket against the cached search: the error it
\* throws, or Null when the id passes
InvalidMenuItemId(searchResults, menuItemId) ==
    IF Len(searchResults) > 0
    THEN LET validIds == MapIds(searchResults) IN
         IF ~ArrIncludes(validIds, menuItemId)
         THEN "Invalid menuItemId. Valid IDs: " \o Join(validIds, ", ")
         ELSE Null
    ELSE Null

\* basket.basketMenuItems?.find(item => item.menuItemId === menuItemId)
FindName(basket, menuItemId) ==
    LET items == basket.basketMenuItems
        hits == {i \in 1..Len(items) : items[i].menuItemId = menuItemId} IN
    IF hits = {} THEN "item"
    ELSE items[CHOOSE i \in hits : \A j \in hits : i <= j].name

AddToBasketCase(env, chatId, token, args) ==
    LET p == Parse(addToBasketSchema, args) IN
    IF ~p.ok THEN {Throw(env, p.msg)}
    ELSE LET menuItemId == p.val.menuItemId.n
             quantity == IF p.val.quantity.t = "undefined" THEN 1 ELSE p.val.quantity.n
             invalid == InvalidMenuItemId(env.state.searchResults, menuItemId)
             Fetched(r) ==
                 LET itemName == FindName(r.val, menuItemId) IN
                 {Return(r.env,
                    [content |-> Text("Added " \o ToString(quantity) \o "x " \o itemName \o " to basket"),
                     structuredContent |-> [basket |-> r.val, action |-> "add",
                                            menuItemId |-> menuItemId, quantity |-> quantity,
                                            itemName |-> itemName]])}
             Updated(u) == Await(GetBasket(u.env, chatId, OrUndefined(token)), Fetched)
         IN  IF invalid # Null THEN {Throw(env, invalid)}
             ELSE Await(UpdateBasket(env, chatId,
                            [addMenuItems |-> <<[menuItemId |-> menuItemId, quantity |-> quantity,
                                                 menuItemOptionSetItems |-> p.val.menuItemOptionSetItems]>>],
                            OrUndefined(token)),
                        Updated)

ViewBasketCase(env, chatId, token, args) ==
    LET Fetched(r) ==
            LET n == ToString(Len(r.val.basketMenuItems)) IN
            {Return(r.env,
               [content |-> Text("Basket contains " \o n \o " items (EUR "
                                 \o ToFixed2(r.val.totalPrice) \o ")"),
                structuredContent |-> [basket |-> r.val],
                meta |-> [outputTemplate |-> BASKET_WIDGET_URI,
                          invoking |-> "Loading basket...",
                          invoked |-> n \o " items in basket"]])}
    IN  Await(GetBasket(env, chatId, OrUndefined(token)), Fetched)

\* variant: the basket is fetched before the update is sent
RemoveFromBasketCaseFetchFirst(env, chatId, token, args) ==
    LET p == Parse(removeFromBasketSchema, args) IN
    IF ~p.ok THEN {Throw(env, p.msg)}
    ELSE LET menuItemId == p.val.menuItemId.n
             quantity == IF p.val.quantity.t = "undefined" THEN 1 ELSE p.val.quantity.n
             Fetched(r) ==
                 LET Updated(u) ==
                         {Return(u.env,
                            [content |-> Text("Removed " \o ToString(quantity) \o "x item from basket"),
                             structuredContent |-> [basket |-> r.val, action |-> "remove"],
                             meta |-> [outputTemplate |-> BASKET_WIDGET_URI]])}
                 IN  Await(UpdateBasket(r.env, chatId,
                                [removeMenuItems |-> <<[menuItemId |-> menuItemId,
                                                        quantity |-> quantity]>>],
                                OrUndefined(token)),
                           Updated)
         IN  Await(GetBasket(env, chatId, OrUndefined(token)), Fetched)

RemoveFromBasketCase(env, chatId, token, args) ==
    LET p == Parse(removeFromBasketSchema, args) IN
    IF ~p.ok THEN {Throw(env, p.msg)}
    ELSE LET menuItemId == p.val.menuItemId.n
             quantity == IF p.val.quantity.t = "undefined" THEN 1 ELSE p.val.quantity.n
             Fetched(r) ==
                 {Return(r.env,
                    [content |-> Text("Removed " \o ToString(quantity) \o "x item from basket"),
                     structuredContent |-> [basket |-> r.val, action |-> "remove"],
                     meta |-> [outputTemplate |-> BASKET_WIDGET_URI]])}
             Updated(u) == Await(GetBasket(u.env, chatId, OrUndefined(token)), Fetched)
         IN  Await(UpdateBasket(env, chatId,
                        [removeMenuItems |-> <<[menuItemId |-> menuItemId, quantity |-> quantity]>>],
                        OrUndefined(token)),
                   Updated)

\* variant: clear_basket reports the basket the remote service holds afterwards
ClearBasketCaseFetched(env, chatId, token, args) ==
    LET Fetched(r) ==
            {Return(r.env,
               [content |-> Text("Basket cleared"),
                structuredContent |-> [basket |-> r.val]])}
        Cleared(c) == Await(GetBasket(c.env, chatId, OrUndefined(token)), Fetched)
    IN  Await(ClearBasket(env, chatId, OrUndefined(token)), Cleared)

ClearBasketCase(env, chatId, token, args) ==
    LET Cleared(r) ==
            {Return(r.env,
               [content |-> Text("Basket cleared"),
                structuredContent |-> [basket |-> [basketMenuItems |-> <<>>, totalPrice |-> 0]]])}
    IN  Await(ClearBasket(env, chatId, OrUndefined(token)), Cleared)

\* submit_order without a token: the authentication widget, no backend call
AuthenticationRequired(env) ==
    {Return(env,
       [content |-> Text("Please authenticate to continue."),
        meta |-> [outputTemplate |-> LOGIN_WIDGET_URI,
                  invoking |-> "Authentication required...",
                  invoked |-> "Please login to continue",
                  widgetAccessible |-> TRUE],
        structuredContent |->
            [error |-> "authentication_required",
             message |-> "Authentication widget opened. Please log in using the form."]])}

\* submit_order with a token: parse, submit, and throw on success = false
\* variant: a reply with success = false is returned as a result
SubmitWithTokenLenient(env, chatId, token, args) ==
    LET p == Parse(submitOrderSchema, args) IN
    IF ~p.ok THEN {Throw(env, p.msg)}
    ELSE LET Submitted(r) ==
                 LET result == r.val IN
                 {Return(r.env,
                    [content |-> Text(OrElse(result.leadTimePrompt,
                                             "Order placed! Order ID: " \o result.orderId)),
                     structuredContent |-> [success |-> result.success,
                                            orderId |-> result.orderId,
                                            leadTimePrompt |-> result.leadTimePrompt]])}
         IN  Await(SubmitOrder(env, chatId, token, p.val.paymentAccountId), Submitted)

SubmitWithToken(env, chatId, token, args) ==
    LET p == Parse(submitOrderSchema, args) IN
    IF ~p.ok THEN {Throw(env, p.msg)}
    ELSE LET Submitted(r) ==
                 LET result == r.val IN
                 IF ~result.success
                 THEN {Throw(r.env, OrElse(result.error, "Order submission failed"))}
                 ELSE {Return(r.env,
                         [content |-> Text(OrElse(result.leadTimePrompt,
                                                  "Order placed! Order ID: " \o result.orderId)),
                          structuredContent |-> [success |-> TRUE,
                                                 orderId |-> result.orderId,
                                                 leadTimePrompt |-> result.leadTimePrompt]])}
         IN  Await(SubmitOrder(env, chatId, token, p.val.paymentAccountId), Submitted)

\* variant: the token is not looked at before submitting
SubmitOrderCaseUngated(env, chatId, token, args) ==
    SubmitWithToken(env, chatId, token, args)

SubmitOrderCase(env, chatId, token, args) ==
    IF Falsy(token)
    THEN AuthenticationRequired(env)
    ELSE SubmitWithToken(env, chatId, token, args)

\* variant: send_otp returns a structured payload as the other tools do
SendOtpCaseStructured(env, chatId, token, args) ==
    LET p == Parse(sendOtpSchema, args) IN
    IF ~p.ok THEN {Throw(env, p.msg)}
    ELSE LET phoneNumber == p.val.phoneNumber.s
             Sent(r) ==
                 IF ~r.val.success
                 THEN {Throw(r.env, OrElse(r.val.error, "Failed to send OTP"))}
                 ELSE {Return(r.env,
                         [content |-> Text("OTP sent to " \o phoneNumber),
                          structuredContent |-> [phoneNumber |-> phoneNumber],
                          meta |-> [outputTemplate |-> LOGIN_WIDGET_URI]])}
         IN  Await(SendOTP(env, phoneNumber), Sent)

\* variant: the success flag of the reply is not looked at
SendOtpCaseLenient(env, chatId, token, args) ==
    LET p == Parse(sendOtpSchema, args) IN
    IF ~p.ok THEN {Throw(env, p.msg)}
    ELSE LET phoneNumber == p.val.phoneNumber.s
             Sent(r) ==
                 {Return(r.env,
                         [content |-> Text("OTP sent to " \o phoneNumber),
                          meta |-> [outputTemplate |-> LOGIN_WIDGET_URI]])}
         IN  Await(SendOTP(env, phoneNumber), Sent)

SendOtpCase(env, chatId, token, args) ==
    LET p == Parse(sendOtpSchema, args) IN
    IF ~p.ok THEN {Throw(env, p.msg)}
    ELSE LET phoneNumber == p.val.phoneNumber.s
             Sent(r) ==
                 IF ~r.val.success
                 THEN {Throw(r.env, OrElse(r.val.error, "Failed to send OTP"))}
                 ELSE {Return(r.env,
                         [content |-> Text("OTP sent to " \o phoneNumber),
                          meta |-> [outputTemplate |-> LOGIN_WIDGET_URI]])}
         IN  Await(SendOTP(env, phoneNumber), Sent)

\* variant: a token is taken even when the reply says success = false
VerificationFailedTokenOnly(result) == Falsy(result.token)

\* variant: a reply with success = true is taken without looking at its token
VerificationFailedSuccessOnly(result) == ~result.success

\* !result.success || !result.token
VerificationFailed(result) == ~result.success \/ Falsy(result.token)

\* variant: the token of the reply is stored before the reply is checked
VerifyOtpCaseStoreFirst(env, chatId, token, args) ==
    LET p == Parse(verifyOtpSchema, args) IN
    IF ~p.ok THEN {Throw(env, p.msg)}
    ELSE LET phoneNumber == p.val.phoneNumber.s
             Verified(r) ==
                 LET result == r.val
                     stored == SetAuthToken(r.env, result.token, phoneNumber) IN
                 IF VerificationFailed(result)
                 THEN {Throw(stored, OrElse(result.error, "OTP verification failed"))}
                 ELSE {Return(stored,
                         [content |-> Text("Authentication successful!"),
                          structuredContent |-> [authenticated |-> TRUE,
                                                 phoneNumber |-> phoneNumber],
                          meta |-> [outputTemplate |-> LOGIN_WIDGET_URI]])}
         IN  Await(VerifyOTP(env, phoneNumber, p.val.code.s, chatId), Verified)

VerifyOtpCase(env, chatId, token, args) ==
    LET p == Parse(verifyOtpSchema, args) IN
    IF ~p.ok THEN {Throw(env, p.msg)}
    ELSE LET phoneNumber == p.val.phoneNumber.s
             Verified(r) ==
                 LET result == r.val IN
                 IF VerificationFailed(result)
                 THEN {Throw(r.env, OrElse(result.error, "OTP verification failed"))}
                 ELSE {Return(SetAuthToken(r.env, result.token, phoneNumber),
                         [content |-> Text("Authentication successful!"),
                          structuredContent |-> [authenticated |-> TRUE,
                                                 phoneNumber |-> phoneNumber],
                          meta |-> [outputTemplate |-> LOGIN_WIDGET_URI]])}
         IN  Await(VerifyOTP(env, phoneNumber, p.val.code.s, chatId), Verified)

UnknownTool(env, name) == {Throw(env, "Unknown tool: " \o name)}

\* the switch of executeToolInternal
Dispatch(env, chatId, token, name, args) ==
    CASE name = "search_menu" -> SearchMenuCase(env, chatId, token, args)
      [] name = "add_to_basket" -> AddToBasketCase(env, chatId, token, args)
      [] name = "view_basket" -> ViewBasketCase(env, chatId, token, args)
      [] name = "remove_from_basket" -> RemoveFromBasketCase(env, chatId, token, args)
      [] name = "clear_basket" -> ClearBasketCase(env, chatId, token, args)
      [] name = "submit_order" -> SubmitOrderCase(env, chatId, token, args)
      [] name = "send_otp" -> SendOtpCase(env, chatId, token, args)
      [] name = "verify_otp" -> VerifyOtpCase(env, chatId, token, args)
      [] OTHER -> UnknownTool(env, name)

\* variant: an unknown tool name is refused before the session is looked at
ExecuteToolInternalNameFirst(env, name, args) ==
    LET Established(s) == Dispatch(s.env, s.val, s.env.state.authToken, name, args)
    IN  IF name \notin ToolNames THEN UnknownTool(env, name)
        ELSE Await(EnsureSession(env), Established)

\* executeToolInternal: the session first, then the token, then the switch
ExecuteToolInternal(env, name, args) ==
    LET Established(s) == Dispatch(s.env, s.val, s.env.state.authToken, name, args)
    IN  Await(EnsureSession(env), Established)

\* variant: every error with a message counts as an expired session
IsSessionExpiredAny(msg) == ~Falsy(msg)

\* variant: the marker counts only in the error of a non-2xx reply
IsSessionExpiredRemote(msg) ==
    /\ ~Falsy(msg)
    /\ Includes(msg, Marker)
    /\ Len(msg) >= 11 /\ SubSeq(msg, 1, 11) = "API Error ("

\* error.message && error.message.includes("Call context not found")
IsSessionExpired(msg) == ~Falsy(msg) /\ Includes(msg, Marker)

\* what one run of executeToolInternal left behind
Attempt(o) ==
    [threw |-> o.threw, msg |-> IF o.threw THEN o.msg ELSE "",
     calls |-> Len(o.env.calls), setters |-> Len(o.env.setters), state |-> o.env.state]

\* variant: the retry runs with the expired chat id still stored
ExecuteToolKeepSession(env, name, args) ==
    UNION {IF first.threw /\ IsSessionExpired(first.msg)
           THEN {[o |-> second, attempts |-> <<Attempt(first), Attempt(second)>>] :
                    second \in ExecuteToolInternal(first.env, name, args)}
           ELSE {[o |-> first, attempts |-> <<Attempt(first)>>]} :
        first \in ExecuteToolInternal(env, name, args)}

\* variant: a retry that fails puts the chat id back that the store held
ExecuteToolRollBack(env, name, args) ==
    UNION {IF first.threw /\ IsSessionExpired(first.msg)
           THEN {[o |-> IF second.threw
                        THEN [second EXCEPT !.env = SetChatId(second.env, first.env.state.chatId)]
                        ELSE second,
                  attempts |-> <<Attempt(first), Attempt(second)>>] :
                    second \in ExecuteToolInternal(SetChatId(first.env, ""), name, args)}
           ELSE {[o |-> first, attempts |-> <<Attempt(first)>>]} :
        first \in ExecuteToolInternal(env, name, args)}

\* variant: the recovery also signs the user out before the retry
ExecuteToolSignOut(env, name, args) ==
    UNION {IF first.threw /\ IsSessionExpired(first.msg)
           THEN {[o |-> second, attempts |-> <<Attempt(first), Attempt(second)>>] :
                    second \in ExecuteToolInternal(ClearAuth(SetChatId(first.env, "")), name, args)}
           ELSE {[o |-> first, attempts |-> <<Attempt(first)>>]} :
        first \in ExecuteToolInternal(env, name, args)}

\* executeTool: one run, and one more after an expired session
ExecuteTool(env, name, args) ==
    UNION {IF first.threw /\ IsSessionExpired(first.msg)
           THEN {[o |-> second, attempts |-> <<Attempt(first), Attempt(second)>>] :
                    second \in ExecuteToolInternal(SetChatId(first.env, ""), name, args)}
           ELSE {[o |-> first, attempts |-> <<Attempt(first)>>]} :
        first \in ExecuteToolInternal(env, name, args)}

\* variant: the error's message without the "Error: " prefix
ErrorResultBare(msg) == [content |-> Text(msg), isError |-> TRUE]

\* the catch block of the CallTool handler
ErrorResult(msg) == [content |-> Text("Error: " \o msg), isError |-> TRUE]

\* the CallToolRequestSchema handler: a result, or the error as a result
CallToolHandler(env, name, args) ==
    {[env |-> x.o.env, attempts |-> x.attempts, threw |-> x.o.threw,
      msg |-> IF x.o.threw THEN x.o.msg ELSE "",
      settled |-> "fulfilled",
      response |-> IF x.o.threw
                   THEN ErrorResult(x.o.msg)
                   ELSE x.o.result] :
        x \in ExecuteTool(env, name, args)}

-----------------------------------------------------------------------------
(* Resource Resolver (server.ts) *)

\* the markup loadBuiltWidget read from the assets directory at startup
MENU_CAROUSEL_HTML == "<html>menu-carousel</html>"
LOGIN_HTML == "<html>login</html>"
BASKET_HTML == "<html>basket</html>"

WidgetMeta(uri) == [outputTemplate |-> uri, widgetAccessible |-> TRUE, allowToolCall |-> TRUE]
WIDGET_META == WidgetMeta(WIDGET_URI)
LOGIN_META == WidgetMeta(LOGIN_WIDGET_URI)
BASKET_META == WidgetMeta(BASKET_WIDGET_URI)

Contents(uri, html, meta) ==
    [contents |-> <<[uri |-> uri, mimeType |-> "text/html+skybridge",
                     text |-> html, meta |-> meta]>>]

\* variant: an unknown URI is served the menu markup
ReadResourceHandlerDefault(uri) ==
    IF uri = LOGIN_WIDGET_URI
    THEN [threw |-> FALSE, msg |-> "", response |-> Contents(LOGIN_WIDGET_URI, LOGIN_HTML, LOGIN_META)]
    ELSE IF uri = BASKET_WIDGET_URI
    THEN [threw |-> FALSE, msg |-> "", response |-> Contents(BASKET_WIDGET_URI, BASKET_HTML, BASKET_META)]
    ELSE [threw |-> FALSE, msg |-> "",
          response |-> Contents(WIDGET_URI, MENU_CAROUSEL_HTML, WIDGET_META)]

\* the ReadResourceRequestSchema handler
ReadResourceHandler(uri) ==
    IF uri = WIDGET_URI
    THEN [threw |-> FALSE, msg |-> "",
          response |-> Contents(WIDGET_URI, MENU_CAROUSEL_HTML, WIDGET_META)]
    ELSE IF uri = LOGIN_WIDGET_URI
    THEN [threw |-> FALSE, msg |-> "", response |-> Contents(LOGIN_WIDGET_URI, LOGIN_HTML, LOGIN_META)]
    ELSE IF uri = BASKET_WIDGET_URI
    THEN [threw |-> FALSE, msg |-> "", response |-> Contents(BASKET_WIDGET_URI, BASKET_HTML, BASKET_META)]
    ELSE [threw |-> TRUE, msg |-> "Unknown resource: " \o uri, response |-> [contents |-> <<>>]]

-----------------------------------------------------------------------------
(* Requests of the assistant runtime *)

\* the URIs the runtime asks for: the three widgets and some others
ResourceUris ==
    {WIDGET_URI, LOGIN_WIDGET_URI, BASKET_WIDGET_URI,
     "ui://widgets/checkout", "ui://widgets/login/", "UI://WIDGETS/BASKET",
     "ui://widgets/menu-carousel?v=2", ""}

NoArgs ==
    [query |-> Undef, menuItemId |-> Undef, quantity |-> Undef,
     menuItemOptionSetItems |-> Undef, paymentAccountId |-> Undef,
     phoneNumber |-> Undef, code |-> Undef]

PhoneNumbers == {"+353861234567", ""}

Request(name, args) == [name |-> name, args |-> args]

Requests ==
    {Request("search_menu", [NoArgs EXCEPT !.query = Str("pizza")]),
     Request("search_menu", NoArgs),
     Request("view_basket", NoArgs),
     Request("clear_basket", NoArgs),
     Request("remove_from_basket", [NoArgs EXCEPT !.menuItemId = Num(1)]),
     Request("remove_from_basket", [NoArgs EXCEPT !.menuItemId = Str("1")]),
     Request("submit_order", NoArgs),
     Request("submit_order", [NoArgs EXCEPT !.paymentAccountId = Num(5)]),
     Request("submit_order", [NoArgs EXCEPT !.paymentAccountId = Str("card")]),
     Request("send_otp", [NoArgs EXCEPT !.phoneNumber = Str("+353861234567")]),
     Request("send_otp", NoArgs),
     Request("verify_otp", [NoArgs EXCEPT !.phoneNumber = Str("+353861234567")]),
     Request("bogus_tool", NoArgs),
     Request("x " \o Marker \o " y", NoArgs)}
    \cup {Request("add_to_basket", [NoArgs EXCEPT !.menuItemId = Num(i)]) : i \in {1, MaxItem + 1}}
    \cup {Request("add_to_basket", [NoArgs EXCEPT !.menuItemId = Num(MaxItem), !.quantity = Num(2),
                                                   !.menuItemOptionSetItems = Arr(<<11>>)]),
          Request("add_to_basket", [NoArgs EXCEPT !.menuItemId = Num(MaxItem + 1), !.quantity = Str("two")])}
    \cup {Request("verify_otp", [NoArgs EXCEPT !.phoneNumber = Str(p), !.code = Str("123456")]) :
            p \in PhoneNumbers}

-----------------------------------------------------------------------------
(* The state machine *)

NoCall == [name |-> Null]

\* no tool calls run interleaved
NoTasks == [before |-> DefaultState, issued |-> Null, tasks |-> <<>>]

\* no render of a card is under way
NoWalk ==
    [at |-> "idle", menuItemOptions |-> 0,
     afterChoosingThis |-> [s \in 1..MaxSets |-> 0],
     isCustomizing |-> FALSE, optionSets |-> <<>>, current |-> 0]

\* the card is not mounted
NoCard == [mounted |-> FALSE]

\* the login widget is not mounted
NoLogin == [mounted |-> FALSE]

\* the ids the SSE transports draw (randomUUID), in the order they are drawn
TransportIds == <<"t1", "t2", "t3">>

\* new Map()
NoSessions == [id \in {} |-> Null]

\* no transport was created and no request answered
NoTransports ==
    [status   |-> [i \in 1..Len(TransportIds) |-> "none"],
     response |-> [request |-> "none", sessionId |-> Null, status |-> 0, body |-> "",
                   transport |-> Null, map |-> {}]]

Init ==
    /\ cacheFile = NoFile
    /\ state = LoadState(NoFile)
    /\ pc = "idle"
    /\ last = NoCall
    /\ issued = Null
    /\ faults = 0
    /\ searchOrigin = "none"
    /\ verified = Null
    /\ inflight = NoTasks
    /\ walk = NoWalk
    /\ card = NoCard
    /\ login = NoLogin
    /\ sessions = NoSessions
    /\ transports = NoTransports

\* one tool call, from the request to the response
CallTool ==
    /\ pc = "idle"
    /\ \E req \in Requests, disk \in DiskModes :
         /\ disk # "ok" => faults < MaxDiskFaults
         /\ \E r \in CallToolHandler(
                [state |-> state, file |-> cacheFile, disk |-> disk, issued |-> issued,
                 calls |-> <<>>, setters |-> <<>>, writes |-> <<>>],
                req.name, req.args) :
              /\ state' = r.env.state
              /\ cacheFile' = r.env.file
              /\ pc' = "responded"
              /\ last' = [name |-> req.name, args |-> req.args, before |-> state,
                          calls |-> r.env.calls, setters |-> r.env.setters,
                          writes |-> r.env.writes, attempts |-> r.attempts,
                          threw |-> r.threw, msg |-> r.msg, settled |-> r.settled,
                          response |-> r.response]
              /\ faults' = IF \E i \in 1..Len(r.env.writes) : ~r.env.writes[i]
                           THEN faults + 1 ELSE faults
              /\ issued' = r.env.issued
              /\ searchOrigin' = IF req.name = "search_menu" THEN "searched" ELSE searchOrigin
              /\ verified' = IF \E i \in 1..Len(r.env.setters) : r.env.setters[i].fn = "setAuthToken"
                             THEN r.env.state.authToken ELSE verified
    /\ UNCHANGED inflight
    /\ UNCHANGED widgets

\* one resources/read request, from the request to the response
ReadResource ==
    /\ pc = "idle"
    /\ \E uri \in ResourceUris :
         LET r == ReadResourceHandler(uri) IN
         last' = [name |-> "resources/read", uri |-> uri, before |-> state,
                  threw |-> r.threw, msg |-> r.msg, response |-> r.response]
    /\ pc' = "served"
    /\ UNCHANGED <<state, cacheFile, issued, faults, searchOrigin, verified, inflight>>
    /\ UNCHANGED widgets

\* the runtime takes the response, or the restarted process has set up its
\* server; the server waits for the next request
Deliver ==
    /\ pc \in {"responded", "served", "started", "called"}
    /\ pc' = "idle"
    /\ last' = NoCall
    /\ UNCHANGED <<state, cacheFile, issued, faults, searchOrigin, verified, inflight>>
    /\ UNCHANGED widgets

\* the process is stopped and started again: state.ts loads the cache
Restart ==
    /\ pc = "idle"
    /\ state' = LoadState(cacheFile)
    /\ searchOrigin' = IF searchOrigin = "none" THEN "none"
                       ELSE IF LoadState(cacheFile).searchResults = <<>> THEN "empty"
                       ELSE "restored"
    /\ verified' = IF /\ cacheFile.kind = "json"
                      /\ "authToken" \in DOMAIN cacheFile.json
                      /\ cacheFile.json.authToken = verified
                   THEN verified ELSE Null
    /\ pc' = "started"
    /\ last' = [name |-> "<restart>", before |-> state]
    /\ UNCHANGED <<cacheFile, issued, faults, inflight>>
    /\ UNCHANGED widgets

Next == CallTool \/ ReadResource \/ Deliver \/ Restart

Spec == Init /\ [][Next]_vars

\* clearAuth(): exported by state.ts and called by no tool; here some other
\* user of the Session Store calls it between two tool calls
ClearAuthCall ==
    /\ pc = "idle"
    /\ \E disk \in DiskModes :
         /\ disk # "ok" => faults < MaxDiskFaults
         /\ LET env == ClearAuth([state |-> state, file |-> cacheFile, disk |-> disk,
                                  issued |-> issued, calls |-> <<>>, setters |-> <<>>,
                                  writes |-> <<>>])
            IN  /\ state' = env.state
                /\ cacheFile' = env.file
                /\ last' = [name |-> "<clearAuth>", args |-> NoArgs, before |-> state,
                            calls |-> <<>>, setters |-> env.setters, writes |-> env.writes,
                            attempts |-> <<>>, threw |-> FALSE, msg |-> "",
                            settled |-> "fulfilled", response |-> [content |-> <<>>]]
         /\ faults' = IF disk = "ok" THEN faults ELSE faults + 1
    /\ pc' = "responded"
    /\ verified' = Null
    /\ UNCHANGED <<issued, searchOrigin, inflight>>
    /\ UNCHANGED widgets

StoreNext == CallTool \/ ReadResource \/ Deliver \/ Restart \/ ClearAuthCall

\* the server together with a direct user of the Session Store
StoreSpec == Init /\ [][StoreNext]_vars

-----------------------------------------------------------------------------
(* Properties *)

Responded == pc = "responded"

\* the backend requests of the responded call with this action
CallsOf(action) == {i \in 1..Len(last.calls) : last.calls[i].action = action}

Invoked(action) == CallsOf(action) # {}

SettersOf(fn) == {i \in 1..Len(last.setters) : last.setters[i].fn = fn}

IsErrorResult(r) == "isError" \in DOMAIN r /\ r.isError

AuthRequiredResult(r) ==
    /\ ~IsErrorResult(r)
    /\ "structuredContent" \in DOMAIN r
    /\ "error" \in DOMAIN r.structuredContent
    /\ r.structuredContent.error = "authentication_required"

Surface(r) == IF "meta" \in DOMAIN r THEN r.meta.outputTemplate ELSE Null

\* the last run of executeToolInternal had a chat id: one was stored, or
\* createSession gave one
SessionEstablished == ~Falsy(state.chatId)

StartsWith(s, prefix) == Len(s) >= Len(prefix) /\ SubSeq(s, 1, Len(prefix)) = prefix

\* C1 as stated: with no auth token held, every submit_order call returns
\* the non-error authentication_required result on the login surface and
\* sends no submitOrder request.
C1_AlwaysAuthenticationRequired ==
    (Responded /\ last.name = "submit_order" /\ Falsy(last.before.authToken)) =>
        /\ AuthRequiredResult(last.response)
        /\ Surface(last.response) = LOGIN_WIDGET_URI
        /\ ~Invoked("submitOrder")

\* C1 amended: with no auth token held, a submit_order call never sends a
\* submitOrder request, whatever its arguments; when the dispatch has its
\* session (a stored id, or one createSession gave) the response is the
\* non-error authentication_required result on the login surface, and when
\* createSession failed the response is that error.
C1_AuthGate ==
    (Responded /\ last.name = "submit_order" /\ Falsy(last.before.authToken)) =>
        /\ ~Invoked("submitOrder")
        /\ SessionEstablished =>
              /\ AuthRequiredResult(last.response)
              /\ Surface(last.response) = LOGIN_WIDGET_URI
        /\ ~SessionEstablished =>
              /\ last.threw
              /\ IsErrorResult(last.response)
              /\ last.calls[Len(last.calls)].action = "createSession"
              /\ last.calls[Len(last.calls)].status # 200

C1_Witness ==
    /\ Responded /\ last.name = "submit_order" /\ Falsy(last.before.authToken)
    /\ last.args.paymentAccountId.t = "string"
    /\ AuthRequiredResult(last.response)

\* the chat id a backend request carries, Null when it carries none
ChatIdOf(call) ==
    CASE call.action \in {"searchMenu", "getBasket", "updateBasket", "clearBasket", "submitOrder"}
            -> call.args[1]
      [] call.action = "verifyOTP" -> call.args[3]
      [] OTHER -> Null

\* C2: a first attempt that fails with the marker in its message is followed
\* by setChatId(''), a createSession request without token and one more
\* attempt whose outcome is the call's outcome, also when it fails with the
\* marker again; no call runs more than two attempts, and a second attempt
\* runs only after such a failure.
C2_RetryOnce ==
    Responded =>
        LET a == last.attempts IN
        /\ Len(a) \in {1, 2}
        /\ (a[1].threw /\ Includes(a[1].msg, Marker)) <=> (Len(a) = 2)
        /\ Len(a) = 2 =>
              /\ Len(last.setters) > a[1].setters
              /\ last.setters[a[1].setters + 1] = [fn |-> "setChatId", chatId |-> ""]
              /\ Len(last.calls) > a[1].calls
              /\ last.calls[a[1].calls + 1].action = "createSession"
              /\ last.calls[a[1].calls + 1].args[3] = Null
              /\ CallsOf("createSession") \cap ((a[1].calls + 2)..Len(last.calls)) = {}
              /\ last.calls[a[1].calls + 1].status = 200 =>
                    /\ state.chatId = last.calls[a[1].calls + 1].reply.chatId
                    /\ \A i \in (a[1].calls + 2)..Len(last.calls) :
                          ChatIdOf(last.calls[i]) \in {Null, state.chatId}
              /\ last.calls[a[1].calls + 1].status # 200 => Falsy(state.chatId)
              /\ last.threw = a[2].threw
              /\ last.msg = a[2].msg

C2_Witness ==
    /\ Responded
    /\ Len(last.attempts) = 2
    /\ ~Falsy(last.before.chatId)
    /\ last.attempts[2].threw
    /\ Includes(last.attempts[2].msg, Marker)
    /\ Len(last.calls) = last.attempts[1].calls + 2

\* a verifyOTP reply that carries success = true and a token
GoodVerification(call) ==
    call.status = 200 /\ call.reply.success /\ ~Falsy(call.reply.token)

\* C3: a verify_otp call none of whose verifyOTP replies has success = true
\* and a token leaves an unauthenticated store unauthenticated; a reply with
\* success = true and a token makes the store authenticated, holding that
\* token and the call's phone number, both written by one setAuthToken.
C3_VerifyOtp ==
    (Responded /\ last.name = "verify_otp") =>
        /\ ((\A i \in CallsOf("verifyOTP") : ~GoodVerification(last.calls[i]))
              /\ ~IsAuthenticated(last.before)) => ~IsAuthenticated(state)
        /\ \A i \in CallsOf("verifyOTP") :
              GoodVerification(last.calls[i]) =>
                  /\ IsAuthenticated(state)
                  /\ state.authToken = last.calls[i].reply.token
                  /\ state.phoneNumber = last.args.phoneNumber.s
                  /\ Cardinality(SettersOf("setAuthToken")) = 1
                  /\ last.setters[Len(last.setters)] =
                        [fn |-> "setAuthToken", token |-> last.calls[i].reply.token,
                         phone |-> last.args.phoneNumber.s]
                  /\ ~last.threw

C3_Witness ==
    /\ Responded /\ last.name = "verify_otp"
    /\ ~IsAuthenticated(last.before)
    /\ Len(last.attempts) = 2
    /\ \E i \in CallsOf("verifyOTP") : GoodVerification(last.calls[i])

\* C4: in every state of the Session Store, after startup and after every
\* tool call, authToken and phoneNumber are both null or both set.
C4_AuthAtomic == (state.authToken = Null) <=> (state.phoneNumber = Null)

\* an authenticated store that startup restored from the cache
C4_Witness ==
    /\ pc = "idle"
    /\ state.authToken # Null /\ state.phoneNumber # Null
    /\ verified = Null

\* the add_to_basket call was rejected by the id check
InvalidIdRejected == last.threw /\ StartsWith(last.msg, "Invalid menuItemId")

NumericItemId == last.args.menuItemId.t = "number"

CachedIds == MapIds(last.before.searchResults)

\* C5: while no search_menu call has ever been made, add_to_basket with a
\* numeric menuItemId is never rejected by the id check; the id check rejects
\* only when the cached search result set is non-empty and lacks the id, so
\* a process that restored an empty cache does not reject either.
C5_IdCheckOnlyAgainstCache ==
    (Responded /\ last.name = "add_to_basket" /\ NumericItemId) =>
        /\ searchOrigin = "none" =>
              /\ last.before.searchResults = <<>>
              /\ ~InvalidIdRejected
        /\ searchOrigin = "empty" => ~InvalidIdRejected
        /\ InvalidIdRejected =>
              /\ Len(last.before.searchResults) > 0
              /\ ~ArrIncludes(CachedIds, last.args.menuItemId.n)

C5_Witness ==
    /\ Responded /\ last.name = "add_to_basket"
    /\ searchOrigin = "none"
    /\ last.args.menuItemId = Num(MaxItem + 1)
    /\ ~last.threw
    /\ Invoked("updateBasket")

\* the ids of a non-empty sequence, in order, separated by ", "
RECURSIVE IdList(_)
IdList(ids) ==
    IF Len(ids) = 1 THEN ToString(ids[1])
    ELSE IdList(SubSeq(ids, 1, Len(ids) - 1)) \o ", " \o ToString(ids[Len(ids)])

\* the cache holds a non-empty search result and the requested id is not in it
IdNotInCache ==
    /\ Responded /\ last.name = "add_to_basket" /\ NumericItemId
    /\ Len(last.before.searchResults) > 0
    /\ \A i \in 1..Len(CachedIds) : CachedIds[i] # last.args.menuItemId.n

\* C6 as stated: with a non-empty cached search, a well-typed add_to_basket
\* with an id outside it fails with the error that lists the cached ids in
\* search order, separated by ", ", and no updateBasket request is sent.
C6_AlwaysListsValidIds ==
    (IdNotInCache /\ Parse(addToBasketSchema, last.args).ok) =>
        /\ last.threw
        /\ last.msg = "Invalid menuItemId. Valid IDs: " \o IdList(CachedIds)
        /\ ~Invoked("updateBasket")

\* C6 amended: with a non-empty cached search, add_to_basket with an id
\* outside it never sends an updateBasket request; when its other arguments
\* are well typed and the dispatch has its session (a stored id, or one
\* createSession gave) it fails with the error that lists the cached ids in
\* search order, separated by ", "; otherwise it fails with the parse error
\* or the createSession error.
C6_RejectsUnknownId ==
    IdNotInCache =>
        /\ ~Invoked("updateBasket")
        /\ last.threw
        /\ (Parse(addToBasketSchema, last.args).ok /\ SessionEstablished) =>
              last.msg = "Invalid menuItemId. Valid IDs: " \o IdList(CachedIds)
        /\ ~Parse(addToBasketSchema, last.args).ok /\ SessionEstablished =>
              StartsWith(last.msg, "[{\"code\":\"invalid_type\"")
        /\ ~SessionEstablished => StartsWith(last.msg, "API Error (")

C6_Witness ==
    /\ IdNotInCache
    /\ Len(CachedIds) = MaxItem
    /\ last.msg = "Invalid menuItemId. Valid IDs: " \o IdList(CachedIds)
    /\ last.response.isError

\* C7 as stated: once verify_otp has succeeded, every later well-typed
\* submit_order call, also after a restart from a snapshot holding the token,
\* returns no authentication_required result and sends submitOrder with that
\* token.
C7_AlwaysSubmits ==
    (Responded /\ last.name = "submit_order" /\ verified # Null
        /\ Parse(submitOrderSchema, last.args).ok) =>
        /\ ~AuthRequiredResult(last.response)
        /\ \E i \in CallsOf("submitOrder") : last.calls[i].args[2] = verified

\* C7 amended: once verify_otp has succeeded, no later submit_order call of
\* the process, or of a process restarted from a snapshot holding the token,
\* returns authentication_required; the store holds the token of the latest
\* successful verify_otp and every submitOrder request carries it; a call with
\* well-typed arguments sends submitOrder unless createSession fails, and a
\* call that sends none ends in the parse error or the createSession error.
C7_TokenObserved ==
    (Responded /\ last.name = "submit_order" /\ verified # Null) =>
        /\ ~AuthRequiredResult(last.response)
        /\ state.authToken = verified
        /\ \A i \in CallsOf("submitOrder") : last.calls[i].args[2] = verified
        /\ ~Parse(submitOrderSchema, last.args).ok =>
              ~Invoked("submitOrder") /\ last.threw
        /\ ~Invoked("submitOrder") =>
              /\ last.threw
              /\ \/ ~Parse(submitOrderSchema, last.args).ok /\ SessionEstablished
                 \/ /\ ~SessionEstablished
                    /\ last.calls[Len(last.calls)].action = "createSession"
                    /\ last.calls[Len(last.calls)].status # 200

\* a submit_order after a restart that restored the token and a search cache
C7_Witness ==
    /\ Responded /\ last.name = "submit_order" /\ verified # Null
    /\ searchOrigin = "restored"
    /\ Invoked("submitOrder")
    /\ ~last.threw

\* C8: the CallTool handler settles with a result for every request: an error
\* thrown by executeTool becomes the result with isError = true and the text
\* "Error: <message>", and the server takes the next request.
C8_ErrorsBecomeResults ==
    /\ Responded =>
          /\ last.settled = "fulfilled"
          /\ last.threw =>
                last.response = [content |-> <<[type |-> "text", text |-> "Error: " \o last.msg]>>,
                                 isError |-> TRUE]
          /\ ~last.threw => ~IsErrorResult(last.response)
    /\ pc = "idle" => ENABLED CallTool

C8_Witness ==
    /\ Responded
    /\ last.name = "bogus_tool"
    /\ last.response.isError
    /\ last.response.content[1].text = "Error: Unknown tool: bogus_tool"

\* C9: a first attempt that fails with a message without the marker ends the
\* call with that error: no second attempt, no backend request and no store
\* write after the failure, and the chat id stays what it was at the failure.
C9_OtherErrorsPropagate ==
    (Responded /\ last.attempts[1].threw /\ ~Includes(last.attempts[1].msg, Marker)) =>
        /\ Len(last.attempts) = 1
        /\ last.threw
        /\ last.msg = last.attempts[1].msg
        /\ Len(last.calls) = last.attempts[1].calls
        /\ Len(last.setters) = last.attempts[1].setters
        /\ state = last.attempts[1].state
        /\ Falsy(last.before.chatId) \/ state.chatId = last.before.chatId
        /\ ~Falsy(last.before.chatId) => ~Invoked("createSession")

C9_Witness ==
    /\ Responded
    /\ ~Falsy(last.before.chatId)
    /\ last.attempts[1].threw
    /\ StartsWith(last.msg, "API Error (500)")

\* the message of an error raised by argument parsing, the id check or the
\* default branch of the switch
ValidationError(msg) ==
    \/ StartsWith(msg, "[{\"code\":\"invalid_type\"")
    \/ StartsWith(msg, "Invalid menuItemId")
    \/ StartsWith(msg, "Unknown tool: ")

\* C10: a call whose dispatch fails with a validation error sends no backend
\* request (but the createSession of ensureSession), is not retried and does
\* not clear the stored chat id.
C10_ValidationLocal ==
    (Responded /\ last.attempts[1].threw /\ ValidationError(last.attempts[1].msg)) =>
        /\ \A i \in 1..Len(last.calls) : last.calls[i].action = "createSession"
        /\ Len(last.attempts) = 1
        /\ \A i \in SettersOf("setChatId") : last.setters[i].chatId # ""
        /\ Falsy(last.before.chatId) \/ state.chatId = last.before.chatId

-----------------------------------------------------------------------------
(* C11 *)

EmptyBasket == [basketMenuItems |-> <<>>, totalPrice |-> 0]

\* C11: every result clear_basket returns reports the basket with no items
\* and total price 0, whatever the remote service answered to clearBasket and
\* whatever basket earlier calls were shown; the call ends in an error only
\* when its last backend request got a non-2xx reply.
C11_ClearReportsEmpty ==
    (Responded /\ last.name = "clear_basket") =>
        /\ ~last.threw =>
              /\ Invoked("clearBasket")
              /\ last.response.structuredContent = [basket |-> EmptyBasket]
              /\ last.response.content = Text("Basket cleared")
        /\ last.threw =>
              /\ Len(last.calls) > 0
              /\ last.calls[Len(last.calls)].status # 200

\* a clear_basket whose clearBasket request the remote service answered with
\* success = false
C11_Witness ==
    /\ Responded /\ last.name = "clear_basket" /\ ~last.threw
    /\ \E i \in CallsOf("clearBasket") :
          last.calls[i].status = 200 /\ ~last.calls[i].reply.success
    /\ last.response.structuredContent.basket = EmptyBasket

-----------------------------------------------------------------------------
(* C12 *)

Restarted == pc = "started"

\* C12: a restart of a process all of whose cache writes succeeded ends in
\* the state the process had before, in chatId, authToken, phoneNumber and
\* searchResults; so does every restart over a file that holds the snapshot
\* of that state; a restart over a missing or unparsable cache file ends in
\* the default state; and the restart is possible in every idle state.
C12_RoundTrip ==
    /\ Restarted =>
          /\ faults = 0 => state = last.before
          /\ cacheFile = Stringify(last.before) => state = last.before
          /\ cacheFile.kind # "json" => state = DefaultState
    /\ pc = "idle" => ENABLED Restart

\* a restart that brought back a session id, a token with its phone number
\* and a non-empty search cache
C12_Witness ==
    /\ Restarted
    /\ faults = 0
    /\ cacheFile.kind = "json"
    /\ ~Falsy(state.chatId) /\ ~Falsy(state.authToken) /\ state.phoneNumber # Null
    /\ Len(state.searchResults) = MaxItem
    /\ state = last.before

\* a restart over an unparsable cache file, from a state that was not the default
C12_RestartFromCorruptFile ==
    /\ Restarted
    /\ cacheFile.kind = "corrupt"
    /\ last.before # DefaultState
    /\ state = DefaultState

-----------------------------------------------------------------------------
(* C13 *)

\* the assignment a setter makes
ApplySetter(st, c) ==
    CASE c.fn = "setChatId" -> [st EXCEPT !.chatId = c.chatId]
      [] c.fn = "setAuthToken" -> [st EXCEPT !.authToken = c.token, !.phoneNumber = c.phone]
      [] c.fn = "clearAuth" -> [st EXCEPT !.authToken = Null, !.phoneNumber = Null]
      [] c.fn = "setSearchResults" -> [st EXCEPT !.searchResults = c.results]

RECURSIVE StateAfter(_, _)
StateAfter(st, cs) ==
    IF cs = <<>> THEN st ELSE StateAfter(ApplySetter(st, Head(cs)), Tail(cs))

WriteFailed == \E i \in 1..Len(last.writes) : ~last.writes[i]

\* how the tool call req can end in the current state under a disk mode:
\* the response, the backend requests, the setter calls, the state in memory
Endings(req, disk) ==
    {[response |-> r.response, threw |-> r.threw, calls |-> r.env.calls,
      setters |-> r.env.setters, state |-> r.env.state] :
        r \in CallToolHandler(
                [state |-> state, file |-> cacheFile, disk |-> disk, issued |-> issued,
                 calls |-> <<>>, setters |-> <<>>, writes |-> <<>>],
                req.name, req.args)}

\* every tool call ends on a disk that refuses writes as it ends on one that
\* takes them
SameAsOnGoodDisk ==
    \A req \in Requests :
        LET good == Endings(req, "ok")
        IN  \A disk \in DiskModes \ {"ok"} : Endings(req, disk) = good

\* C13: each call of setChatId, setAuthToken, clearAuth and setSearchResults
\* attempts one write of the cache; after a write that succeeded the file
\* is the snapshot of the whole state; whether the writes succeed or fail the
\* state in memory holds every value the setters assigned, and a tool call
\* whose writes failed ends as it does when they succeed.
C13_SettersPersist ==
    /\ pc = "idle" => SameAsOnGoodDisk
    /\ Responded =>
          /\ Len(last.writes) = Len(last.setters)
          /\ state = StateAfter(last.before, last.setters)
          /\ last.setters = <<>> => state = last.before
          /\ (last.setters # <<>> /\ ~WriteFailed) =>
                /\ cacheFile = Stringify(state)
                /\ DOMAIN cacheFile.json = DOMAIN DefaultState
          /\ WriteFailed => last.settled = "fulfilled"

\* a verify_otp whose cache write failed: it returns its normal result and
\* the store holds the new token, which the file does not
C13_Witness ==
    /\ Responded /\ last.name = "verify_otp"
    /\ WriteFailed
    /\ ~last.threw
    /\ last.response.structuredContent.authenticated
    /\ state.authToken # last.before.authToken
    /\ cacheFile # Stringify(state)

\* a clearAuth whose cache write failed while a token was held
C13_ClearAuthOnBadDisk ==
    /\ Responded /\ last.name = "<clearAuth>"
    /\ WriteFailed
    /\ ~Falsy(last.before.authToken)
    /\ state.authToken = Null /\ state.phoneNumber = Null

-----------------------------------------------------------------------------
(* C14 *)

\* the backend requests and the setter calls of the k-th dispatch of the call
FirstCall(k) == IF k = 1 THEN 1 ELSE last.attempts[k - 1].calls + 1
LastCall(k) == last.attempts[k].calls
\* the retry's dispatch comes after the setChatId('') of executeTool
FirstSetter(k) == IF k = 1 THEN 1 ELSE last.attempts[k - 1].setters + 2

\* the chat id stored when the k-th dispatch starts
StoredChatId(k) == IF k = 1 THEN last.before.chatId ELSE ""

CarriesChatId(call) ==
    call.action \in {"searchMenu", "getBasket", "updateBasket", "clearBasket",
                     "submitOrder", "verifyOTP"}

\* C14: a dispatch that starts with no chat id stored (null or "") sends
\* createSession as its first request and only then, with null for the token
\* also when a token is held; the id of a 2xx reply is stored by setChatId and
\* carried by every later request of the dispatch, and a failed createSession
\* ends the dispatch. A dispatch that starts with a chat id stored sends no
\* createSession, leaves the stored id alone and carries it in every request.
C14_EnsureSession ==
    Responded =>
        \A k \in 1..Len(last.attempts) :
            LET reqs == FirstCall(k)..LastCall(k)
                a == last.attempts[k] IN
            /\ Falsy(StoredChatId(k)) =>
                  /\ reqs # {}
                  /\ last.calls[FirstCall(k)].action = "createSession"
                  /\ last.calls[FirstCall(k)].args[3] = Null
                  /\ \A i \in reqs \ {FirstCall(k)} : last.calls[i].action # "createSession"
                  /\ last.calls[FirstCall(k)].status = 200 =>
                        LET id == last.calls[FirstCall(k)].reply.chatId IN
                        /\ last.setters[FirstSetter(k)] = [fn |-> "setChatId", chatId |-> id]
                        /\ a.state.chatId = id
                        /\ \A i \in reqs : CarriesChatId(last.calls[i]) =>
                              ChatIdOf(last.calls[i]) = id
                  /\ last.calls[FirstCall(k)].status # 200 =>
                        /\ reqs = {FirstCall(k)}
                        /\ a.threw
                        /\ a.setters = FirstSetter(k) - 1
                        /\ a.state.chatId = StoredChatId(k)
            /\ ~Falsy(StoredChatId(k)) =>
                  /\ \A i \in reqs : last.calls[i].action # "createSession"
                  /\ \A i \in reqs : CarriesChatId(last.calls[i]) =>
                        ChatIdOf(last.calls[i]) = StoredChatId(k)
                  /\ a.state.chatId = StoredChatId(k)
                  /\ \A i \in FirstSetter(k)..a.setters : last.setters[i].fn # "setChatId"

\* a dispatch that starts with a token held and no chat id stored: the new
\* session is a guest session and the order is submitted in it
C14_Witness ==
    /\ Responded /\ last.name = "submit_order"
    /\ Falsy(last.before.chatId)
    /\ ~Falsy(last.before.authToken)
    /\ last.calls[1].action = "createSession"
    /\ last.calls[1].args[3] = Null
    /\ last.calls[1].status = 200
    /\ Len(last.calls) = 2
    /\ last.calls[2].action = "submitOrder"
    /\ last.calls[2].args[1] = last.calls[1].reply.chatId
    /\ state.chatId = last.calls[1].reply.chatId

-----------------------------------------------------------------------------
(* C15 *)

\* the responded call returned a result (no error was thrown)
Succeeded == Responded /\ last.name \in ToolNames /\ ~last.threw

HasTextSummary(r) ==
    /\ "content" \in DOMAIN r
    /\ Len(r.content) = 1
    /\ r.content[1].type = "text"
    /\ Len(r.content[1].text) > 0

\* C15 as stated: every result a tool returns holds a text summary and a
\* structured payload.
C15_AlwaysStructured ==
    Succeeded =>
        /\ HasTextSummary(last.response)
        /\ "structuredContent" \in DOMAIN last.response

\* C15 amended: every result a tool returns holds one text summary; it holds
\* a structured payload for every tool but send_otp, whose result holds
\* none; it names a UI surface for every tool but add_to_basket and
\* clear_basket, and but for the submit_order that placed the order.
C15_ResultShape ==
    Succeeded =>
        /\ HasTextSummary(last.response)
        /\ ("structuredContent" \in DOMAIN last.response) <=> (last.name # "send_otp")
        /\ ("meta" \notin DOMAIN last.response) <=>
              \/ last.name \in {"add_to_basket", "clear_basket"}
              \/ last.name = "submit_order" /\ Invoked("submitOrder")
        /\ DOMAIN last.response \subseteq {"content", "structuredContent", "meta"}

\* a send_otp that succeeded: a text and the login surface, no payload
C15_Witness ==
    /\ Succeeded /\ last.name = "send_otp"
    /\ last.response = [content |-> Text("OTP sent to " \o last.args.phoneNumber.s),
                        meta |-> [outputTemplate |-> LOGIN_WIDGET_URI]]

-----------------------------------------------------------------------------
(* C16 *)

Served == pc = "served"

\* C16: after any sequence of requests, a resources/read of
\* ui://widgets/menu-carousel, ui://widgets/login or ui://widgets/basket
\* returns one content entry with that URI and the menu, login or basket
\* markup loaded at startup; a read of any other URI fails with
\* "Unknown resource: <uri>"; a read leaves the Session Store as it was.
C16_ResourceResolver ==
    /\ Served =>
          /\ last.uri = WIDGET_URI =>
                /\ ~last.threw
                /\ last.response = Contents(WIDGET_URI, MENU_CAROUSEL_HTML, WIDGET_META)
          /\ last.uri = LOGIN_WIDGET_URI =>
                /\ ~last.threw
                /\ last.response = Contents(LOGIN_WIDGET_URI, LOGIN_HTML, LOGIN_META)
          /\ last.uri = BASKET_WIDGET_URI =>
                /\ ~last.threw
                /\ last.response = Contents(BASKET_WIDGET_URI, BASKET_HTML, BASKET_META)
          /\ last.uri \notin {WIDGET_URI, LOGIN_WIDGET_URI, BASKET_WIDGET_URI} =>
                /\ last.threw
                /\ last.msg = "Unknown resource: " \o last.uri
                /\ last.response.contents = <<>>
          /\ state = last.before
    /\ Cardinality({MENU_CAROUSEL_HTML, LOGIN_HTML, BASKET_HTML}) = 3
    /\ pc = "idle" => ENABLED ReadResource

\* the login URI with a trailing slash is refused, in a process that has
\* already served tool calls
C16_Witness ==
    /\ Served
    /\ last.uri = "ui://widgets/login/"
    /\ last.threw
    /\ last.msg = "Unknown resource: ui://widgets/login/"
    /\ ~Falsy(state.chatId)

-----------------------------------------------------------------------------
(* C17 *)

\* a submit_order call made while a token is held
SubmitWithTokenHeld ==
    Responded /\ last.name = "submit_order" /\ ~Falsy(last.before.authToken)

\* the text a submitOrder reply with success = false is thrown with
FailureText(reply) == OrElse(reply.error, "Order submission failed")

\* C17 as stated: with a token held and well-typed arguments, submit_order
\* sends submitOrder; a reply with success = false makes the call fail with
\* the reply's error text or "Order submission failed"; a reply with
\* success = true makes it return success = true and the reply's order id.
C17_FailsOrSucceedsWithReply ==
    (SubmitWithTokenHeld /\ Parse(submitOrderSchema, last.args).ok) =>
        /\ Invoked("submitOrder")
        /\ \A i \in CallsOf("submitOrder") :
              last.calls[i].status = 200 =>
                  IF last.calls[i].reply.success
                  THEN /\ ~last.threw
                       /\ last.response.structuredContent.success
                       /\ last.response.structuredContent.orderId = last.calls[i].reply.orderId
                  ELSE /\ last.threw
                       /\ last.msg = FailureText(last.calls[i].reply)

\* C17 amended: with a token held, every dispatch of submit_order that has
\* well-typed arguments and a session sends one submitOrder, with the held
\* token, as its last request. A reply with success = false makes that
\* dispatch throw the reply's error text or "Order submission failed"; the
\* call fails with it, unless it is the first dispatch and the text contains
\* the expiry marker: then the call is dispatched once more and ends as that
\* dispatch ends. A reply with success = true ends the call with the result
\* success = true, the reply's order id and lead-time prompt.
C17_SubmitOutcome ==
    SubmitWithTokenHeld =>
        \A k \in 1..Len(last.attempts) :
            LET a == last.attempts[k]
                sent == CallsOf("submitOrder") \cap (FirstCall(k)..LastCall(k)) IN
            /\ sent \subseteq {LastCall(k)}
            /\ (sent # {}) <=>
                  /\ Parse(submitOrderSchema, last.args).ok
                  /\ ~Falsy(a.state.chatId)
            /\ \A i \in sent :
                  LET call == last.calls[i] IN
                  /\ call.args[1] = a.state.chatId
                  /\ call.args[2] = last.before.authToken
                  /\ (call.status = 200 /\ ~call.reply.success) =>
                        /\ a.threw
                        /\ a.msg = FailureText(call.reply)
                        /\ (k = 1 /\ Includes(a.msg, Marker)) => Len(last.attempts) = 2
                        /\ (k = 2 \/ ~Includes(a.msg, Marker)) =>
                              /\ k = Len(last.attempts)
                              /\ last.threw
                              /\ last.msg = FailureText(call.reply)
                              /\ last.response = ErrorResult(FailureText(call.reply))
                  /\ (call.status = 200 /\ call.reply.success) =>
                        /\ k = Len(last.attempts)
                        /\ ~last.threw
                        /\ last.response.structuredContent =
                              [success |-> TRUE, orderId |-> call.reply.orderId,
                               leadTimePrompt |-> call.reply.leadTimePrompt]
                  /\ call.status # 200 => a.threw /\ StartsWith(a.msg, "API Error (")

\* a submitOrder reply with success = false and no error text
C17_Witness ==
    /\ SubmitWithTokenHeld
    /\ Len(last.attempts) = 1
    /\ Len(last.calls) = 1
    /\ last.calls[1].action = "submitOrder"
    /\ last.calls[1].status = 200
    /\ ~last.calls[1].reply.success
    /\ last.calls[1].reply.error = Undefined
    /\ last.response = ErrorResult("Order submission failed")

\* a submitOrder reply with success = false whose text holds the marker,
\* followed by a retry that places the order
C17_FailureReplyRetried ==
    /\ SubmitWithTokenHeld
    /\ Len(last.attempts) = 2
    /\ last.calls[1].action = "submitOrder"
    /\ last.calls[1].status = 200
    /\ ~last.calls[1].reply.success
    /\ ~last.threw
    /\ last.response.structuredContent.success

-----------------------------------------------------------------------------
(* C18 *)

\* C18: a verify_otp call that ends in an error (arguments that do not
\* parse, a non-2xx reply, a reply with success = false or without a token,
\* on the first dispatch or on the retry) calls setAuthToken in none of its
\* dispatches and leaves authToken and phoneNumber as they were before the
\* call, also when they were set.
C18_FailedVerifyKeepsAuth ==
    (Responded /\ last.name = "verify_otp" /\ last.threw) =>
        /\ state.authToken = last.before.authToken
        /\ state.phoneNumber = last.before.phoneNumber
        /\ SettersOf("setAuthToken") = {}
        /\ \A k \in 1..Len(last.attempts) :
              /\ last.attempts[k].threw
              /\ last.attempts[k].state.authToken = last.before.authToken
              /\ last.attempts[k].state.phoneNumber = last.before.phoneNumber
        /\ \A i \in CallsOf("verifyOTP") : ~GoodVerification(last.calls[i])

\* a reply with success = false that carries a token, while another token
\* and phone number are stored
C18_Witness ==
    /\ Responded /\ last.name = "verify_otp" /\ last.threw
    /\ ~Falsy(last.before.authToken)
    /\ \E i \in CallsOf("verifyOTP") :
          /\ last.calls[i].status = 200
          /\ ~last.calls[i].reply.success
          /\ ~Falsy(last.calls[i].reply.token)
          /\ last.calls[i].reply.token # last.before.authToken
          /\ last.calls[i].args[1] # last.before.phoneNumber
    /\ state.authToken = last.before.authToken
    /\ state.phoneNumber = last.before.phoneNumber

-----------------------------------------------------------------------------
(* C19 *)

\* C19: a search_menu call that returns a result has searchMenu as its last
\* backend request; the item sequence the gateway made of the reply (the
\* array itself, or the items of the object, or none) is, items and order
\* kept, the new search cache and structuredContent.items, whatever the
\* cache held before; the result names the menu surface and its texts count
\* the items.
C19_SearchReplacesCache ==
    (Responded /\ last.name = "search_menu" /\ ~last.threw) =>
        /\ Len(last.calls) > 0
        /\ LET call == last.calls[Len(last.calls)]
               items == NormalizeSearch(call.reply) IN
           /\ call.action = "searchMenu"
           /\ call.status = 200
           /\ call.args = <<state.chatId, last.args.query.s>>
           /\ state.searchResults = items
           /\ last.setters[Len(last.setters)] = [fn |-> "setSearchResults", results |-> items]
           /\ Cardinality(SettersOf("setSearchResults")) = 1
           /\ last.response.structuredContent = [items |-> items]
           /\ Surface(last.response) = WIDGET_URI
           /\ last.response.content = Text("Found " \o ToString(Len(items)) \o " menu items")
           /\ ~WriteFailed => cacheFile.json.searchResults = items

\* a search that found one item while the cache held every item, highest
\* id first
C19_Witness ==
    /\ Responded /\ last.name = "search_menu" /\ ~last.threw
    /\ last.before.searchResults = Run(MaxItem, 1)
    /\ state.searchResults = Run(MaxItem, MaxItem)
    /\ last.response.structuredContent.items = Run(MaxItem, MaxItem)

\* a search whose reply came in descending id order: the order is kept
C19_OrderKept ==
    /\ Responded /\ last.name = "search_menu" /\ ~last.threw
    /\ last.before.searchResults = <<>>
    /\ state.searchResults = Run(MaxItem, 1)
    /\ MapIds(state.searchResults)[1] = MaxItem

-----------------------------------------------------------------------------
(* C20 *)

BasketChange == Responded /\ last.name \in {"add_to_basket", "remove_from_basket"}

\* C20: in every dispatch of add_to_basket and remove_from_basket a
\* getBasket request is sent only right after the updateBasket request of
\* that dispatch got its 2xx reply, and with the same chat id; a call that
\* returns a result ends with that pair of requests, and the basket in its
\* result is the reply to that getBasket.
C20_BasketFetchedAfterUpdate ==
    BasketChange =>
        /\ \A k \in 1..Len(last.attempts) :
              LET reqs == FirstCall(k)..LastCall(k) IN
              /\ Cardinality(CallsOf("updateBasket") \cap reqs) <= 1
              /\ Cardinality(CallsOf("getBasket") \cap reqs) <= 1
              /\ \A i \in CallsOf("getBasket") \cap reqs :
                    /\ i - 1 \in reqs
                    /\ last.calls[i - 1].action = "updateBasket"
                    /\ last.calls[i - 1].status = 200
                    /\ last.calls[i].args[1] = last.calls[i - 1].args[1]
                    /\ last.calls[i].args[1] = last.attempts[k].state.chatId
              /\ \A i \in CallsOf("updateBasket") \cap reqs :
                    last.calls[i].status = 200 =>
                        (i + 1 \in reqs /\ last.calls[i + 1].action = "getBasket")
        /\ ~last.threw =>
              LET n == Len(last.calls) IN
              /\ n >= 2
              /\ last.calls[n].action = "getBasket"
              /\ last.calls[n].status = 200
              /\ last.response.structuredContent.basket = last.calls[n].reply
              /\ last.response.structuredContent.action =
                    (IF last.name = "add_to_basket" THEN "add" ELSE "remove")

\* a remove_from_basket whose basket afterwards still holds an item
C20_Witness ==
    /\ BasketChange /\ last.name = "remove_from_basket" /\ ~last.threw
    /\ Len(last.calls) = 2
    /\ last.calls[1].action = "updateBasket"
    /\ last.calls[2].action = "getBasket"
    /\ Len(last.calls[2].reply.basketMenuItems) = 1
    /\ last.response.structuredContent.basket = last.calls[2].reply

-----------------------------------------------------------------------------
(* C21: two tool calls in flight at once *)

\* Two connections share the Session Store (one createFlipDishServer per SSE
\* connection, one module state), so two CallTool handlers can be in flight;
\* each runs until its next await, where the other may run.  A step below is
\* the code between two awaits.

\* the requests of the interleaved calls
AsyncRequests ==
    <<Request("view_basket", NoArgs),
      Request("search_menu", [NoArgs EXCEPT !.query = Str("pizza")]),
      Request("add_to_basket", [NoArgs EXCEPT !.menuItemId = Num(MaxItem + 1)])>>

\* a handler that has just been called
Task(req) ==
    [req |-> req, at |-> "arrived", attempt |-> 1, chatId |-> Null,
     remaining |-> 0, setters |-> <<>>, threw |-> FALSE, expired |-> FALSE,
     created |-> 0, failed |-> 0]

\* the store and the disk as a running handler finds them at this moment
AsyncEnv ==
    [state |-> state, file |-> cacheFile, disk |-> "ok", issued |-> issued,
     calls |-> <<>>, setters |-> <<>>, writes |-> <<>>]

\* an error thrown out of executeToolInternal reaches the catch of
\* executeTool: the first attempt's error is caught for the retry when its
\* message holds the marker (expired), every other error ends the call
Thrown(t, expired) ==
    IF t.attempt = 1 /\ expired
    THEN [t EXCEPT !.at = "caught", !.threw = FALSE, !.expired = FALSE]
    ELSE [t EXCEPT !.at = "done", !.threw = TRUE, !.expired = FALSE]

\* the store after the setter calls cs, each followed by saveState
StoreAfter(cs) ==
    [state |-> StateAfter(state, cs),
     file |-> IF cs = <<>> THEN cacheFile ELSE Stringify(StateAfter(state, cs))]

\* the number of requests of a dispatch that got a non-2xx reply
Refused(calls) == Cardinality({i \in 1..Len(calls) : calls[i].status # 200})

\* two tool calls arrive on two connections
Arrive ==
    /\ pc = "idle"
    /\ \E i, j \in 1..Len(AsyncRequests) :
         /\ i <= j
         /\ inflight' = [before |-> state, issued |-> issued,
                         tasks |-> <<Task(AsyncRequests[i]), Task(AsyncRequests[j])>>]
    /\ pc' = "concurrent"
    /\ UNCHANGED <<state, cacheFile, last, issued, faults, searchOrigin, verified>>
    /\ UNCHANGED widgets

\* ensureSession up to its await: the stored chat id is read; without one
\* createSession is sent
Begin(i) ==
    LET t == inflight.tasks[i] IN
    /\ pc = "concurrent"
    /\ t.at = "arrived"
    /\ inflight' = [inflight EXCEPT !.tasks[i] =
                      IF ~Falsy(state.chatId)
                      THEN [t EXCEPT !.at = "resume", !.chatId = state.chatId]
                      ELSE [t EXCEPT !.at = "creating"]]
    /\ UNCHANGED <<state, cacheFile, pc, last, issued, faults, searchOrigin, verified>>
    /\ UNCHANGED widgets

\* the reply to createSession: the new id is stored, or the error is thrown
SessionReply(i) ==
    LET t == inflight.tasks[i] IN
    /\ pc = "concurrent"
    /\ t.at = "creating"
    /\ \E r \in CreateSession(AsyncEnv, Undefined) :
         IF r.ok
         THEN LET env == SetChatId(r.env, r.val.chatId) IN
              /\ state' = env.state
              /\ cacheFile' = env.file
              /\ issued' = env.issued
              /\ inflight' = [inflight EXCEPT !.tasks[i] =
                                [t EXCEPT !.at = "resume", !.chatId = r.val.chatId,
                                          !.created = @ + 1]]
         ELSE /\ inflight' = [inflight EXCEPT !.tasks[i] =
                                Thrown([t EXCEPT !.failed = @ + 1], IsSessionExpired(r.msg))]
              /\ UNCHANGED <<state, cacheFile, issued>>
    /\ UNCHANGED <<pc, last, faults, searchOrigin, verified>>
    /\ UNCHANGED widgets

\* executeToolInternal after `await ensureSession()`: the token is read and
\* the switch runs to its first await; the requests the case goes on to send
\* and the setter it calls after the last reply do not depend on the store
Resume(i) ==
    LET t == inflight.tasks[i] IN
    /\ pc = "concurrent"
    /\ t.at = "resume"
    /\ \E o \in Dispatch(AsyncEnv, t.chatId, state.authToken, t.req.name, t.req.args) :
         inflight' = [inflight EXCEPT !.tasks[i] =
             IF Len(o.env.calls) = 0
             THEN IF o.threw THEN Thrown(t, IsSessionExpired(o.msg))
                  ELSE [t EXCEPT !.at = "done"]
             ELSE [t EXCEPT !.at = "body", !.remaining = Len(o.env.calls),
                            !.setters = o.env.setters, !.threw = o.threw,
                            !.expired = o.threw /\ IsSessionExpired(o.msg),
                            !.failed = @ + Refused(o.env.calls)]]
    /\ UNCHANGED <<state, cacheFile, pc, last, issued, faults, searchOrigin, verified>>
    /\ UNCHANGED widgets

\* a reply to a request of the switch: the case goes on to its next await, or
\* after the last reply it calls its setter and returns or throws
Reply(i) ==
    LET t == inflight.tasks[i] IN
    /\ pc = "concurrent"
    /\ t.at = "body"
    /\ IF t.remaining > 1
       THEN /\ inflight' = [inflight EXCEPT !.tasks[i].remaining = @ - 1]
            /\ UNCHANGED <<state, cacheFile>>
       ELSE /\ state' = StoreAfter(t.setters).state
            /\ cacheFile' = StoreAfter(t.setters).file
            /\ inflight' = [inflight EXCEPT !.tasks[i] =
                              IF t.threw
                              THEN Thrown([t EXCEPT !.remaining = 0, !.setters = <<>>],
                                          t.expired)
                              ELSE [t EXCEPT !.at = "done", !.remaining = 0,
                                             !.setters = <<>>]]
    /\ UNCHANGED <<pc, last, issued, faults, searchOrigin, verified>>
    /\ UNCHANGED widgets

\* the catch of executeTool: setChatId(''), then executeToolInternal again,
\* whose ensureSession finds no chat id and sends createSession
Catch(i) ==
    LET t == inflight.tasks[i]
        env == SetChatId(AsyncEnv, "") IN
    /\ pc = "concurrent"
    /\ t.at = "caught"
    /\ state' = env.state
    /\ cacheFile' = env.file
    /\ inflight' = [inflight EXCEPT !.tasks[i] =
                      [t EXCEPT !.at = "creating", !.attempt = 2]]
    /\ UNCHANGED <<pc, last, issued, faults, searchOrigin, verified>>
    /\ UNCHANGED widgets

AllDone ==
    /\ pc = "concurrent"
    /\ \A i \in 1..Len(inflight.tasks) : inflight.tasks[i].at = "done"

\* both responses are taken; the server waits for the next requests
Settle ==
    /\ AllDone
    /\ pc' = "idle"
    /\ inflight' = NoTasks
    /\ UNCHANGED <<state, cacheFile, last, issued, faults, searchOrigin, verified>>
    /\ UNCHANGED widgets

AsyncNext ==
    \/ Arrive
    \/ \E i \in 1..2 : Begin(i)
    \/ \E i \in 1..2 : SessionReply(i)
    \/ \E i \in 1..2 : Resume(i)
    \/ \E i \in 1..2 : Reply(i)
    \/ \E i \in 1..2 : Catch(i)
    \/ Settle

\* the server with two connections whose tool calls interleave
AsyncSpec == Init /\ [][AsyncNext]_vars

\* the sessions the two calls created and the replies that refused a request
SumOf(field) == inflight.tasks[1][field] + inflight.tasks[2][field]

Sessions(calls) ==
    Cardinality({i \in 1..Len(calls) : calls[i].action = "createSession" /\ calls[i].status = 200})

\* how the two calls can end when the second starts after the first has
\* responded: the final store, the sessions created, the requests refused
SerialEndings(first, second) ==
    LET env0 == [state |-> inflight.before, file |-> NoFile, disk |-> "ok",
                 issued |-> inflight.issued, calls |-> <<>>, setters |-> <<>>,
                 writes |-> <<>>] IN
    UNION {{[state |-> r2.env.state,
             created |-> Sessions(r1.env.calls) + Sessions(r2.env.calls),
             failed |-> Refused(r1.env.calls) + Refused(r2.env.calls)] :
               r2 \in CallToolHandler([env0 EXCEPT !.state = r1.env.state,
                                                   !.issued = r1.env.issued],
                                      second.name, second.args)} :
           r1 \in CallToolHandler(env0, first.name, first.args)}

\* C21: when two interleaved tool calls have both ended, the final Session
\* Store state and the number of backend sessions created are those of a
\* serial execution of the two calls in which the remote service refuses as
\* many requests; and two calls that both start with no chat id stored and
\* are not retried create at most one backend session between them.
C21_Serializable ==
    AllDone =>
        LET a == inflight.tasks[1].req
            b == inflight.tasks[2].req IN
        /\ [state |-> state, created |-> SumOf("created"), failed |-> SumOf("failed")]
              \in SerialEndings(a, b) \cup SerialEndings(b, a)
        /\ (Falsy(inflight.before.chatId)
              /\ \A i \in 1..2 : inflight.tasks[i].attempt = 1) =>
                 SumOf("created") <= 1

-----------------------------------------------------------------------------
(* C22 *)

\* C22: in a call that is retried, the first attempt and the recovery change
\* nothing of the store but the chat id: when the retry starts, authToken,
\* phoneNumber and the search cache are what they were before the call.  The
\* retry sends its requests under the same credential as the first attempt
\* and submits with the same token, and its add_to_basket is rejected by the
\* id check exactly when the cache held before the call rejects the id.
C22_RetryKeepsAuthAndCache ==
    (Responded /\ Len(last.attempts) = 2) =>
        LET a1 == last.attempts[1]
            a2 == last.attempts[2] IN
        /\ a1.state = [last.before EXCEPT !.chatId = a1.state.chatId]
        /\ Len(last.setters) > a1.setters
        /\ StateAfter(last.before, SubSeq(last.setters, 1, a1.setters + 1)) =
              [last.before EXCEPT !.chatId = ""]
        /\ \A i \in 1..Len(last.setters) :
              last.setters[i].fn # "setChatId" => i = Len(last.setters) /\ ~last.threw
        /\ a2.threw => state = [last.before EXCEPT !.chatId = state.chatId]
        /\ \A i \in 1..a1.calls : \A j \in (a1.calls + 1)..Len(last.calls) :
              last.calls[i].action = last.calls[j].action =>
                  last.calls[i].authorization = last.calls[j].authorization
        /\ \A j \in CallsOf("submitOrder") : last.calls[j].args[2] = last.before.authToken
        /\ (last.name = "add_to_basket" /\ Parse(addToBasketSchema, last.args).ok
              /\ ~Falsy(a2.state.chatId)) =>
                 ((a2.threw /\ StartsWith(a2.msg, "Invalid menuItemId")) <=>
                    InvalidMenuItemId(last.before.searchResults, last.args.menuItemId.n) # Null)

\* an add_to_basket retried while a token and a search result are held: the
\* retry passes the id check as the first attempt did and uses the token
C22_Witness ==
    /\ Responded /\ last.name = "add_to_basket"
    /\ Len(last.attempts) = 2
    /\ ~Falsy(last.before.authToken)
    /\ Len(last.before.searchResults) > 0
    /\ last.calls[1].action = "updateBasket"
    /\ ~last.threw
    /\ last.calls[Len(last.calls)].authorization = last.before.authToken
    /\ state.searchResults = last.before.searchResults

-----------------------------------------------------------------------------
(* C23 *)

-----------------------------------------------------------------------------
(* C24 *)

\* C24: a tool call that starts with the store authenticated ends with the
\* store authenticated, whether it returns a result or ends in an error, and
\* the store is authenticated at the end of each of its dispatches, the
\* retry after an expired session included; no tool call calls clearAuth.
C24_StaysAuthenticated ==
    Responded =>
        /\ SettersOf("clearAuth") = {}
        /\ IsAuthenticated(last.before) =>
              /\ IsAuthenticated(state)
              /\ state.phoneNumber # Null
              /\ \A k \in 1..Len(last.attempts) : IsAuthenticated(last.attempts[k].state)
              /\ \A i \in SettersOf("setAuthToken") : ~Falsy(last.setters[i].token)

\* an authenticated store, and a verify_otp whose reply says success = true
\* without a token: the call fails and the store keeps its token
C24_Witness ==
    /\ Responded /\ last.name = "verify_otp"
    /\ IsAuthenticated(last.before)
    /\ last.threw
    /\ \E i \in CallsOf("verifyOTP") :
          /\ last.calls[i].status = 200
          /\ last.calls[i].reply.success
          /\ Falsy(last.calls[i].reply.token)
    /\ state.authToken = last.before.authToken

\* an authenticated store that goes through session-expiry recovery
C24_ThroughRecovery ==
    /\ Responded
    /\ IsAuthenticated(last.before)
    /\ Len(last.attempts) = 2
    /\ last.attempts[2].threw
    /\ IsAuthenticated(state)

-----------------------------------------------------------------------------
(* C25 *)

\* C25: setSearchResults is called only by a dispatch of search_menu, right
\* after its searchMenu request got a 2xx reply and as the last thing the
\* call does to the store; a search_menu call that ends in an error and every
\* call under another tool name leave the search cache as it was.
C25_CacheChangedOnlyBySearch ==
    Responded =>
        /\ SettersOf("setSearchResults") # {} =>
              /\ last.name = "search_menu"
              /\ ~last.threw
              /\ SettersOf("setSearchResults") = {Len(last.setters)}
              /\ last.calls[Len(last.calls)].action = "searchMenu"
              /\ last.calls[Len(last.calls)].status = 200
        /\ (last.name # "search_menu" \/ last.threw) =>
              /\ state.searchResults = last.before.searchResults
              /\ \A k \in 1..Len(last.attempts) :
                    last.attempts[k].state.searchResults = last.before.searchResults
        /\ state.searchResults # last.before.searchResults =>
              SettersOf("setSearchResults") # {}

\* a search_menu whose searchMenu request was refused while the cache held
\* a search result: the cache is kept
C25_Witness ==
    /\ Responded /\ last.name = "search_menu" /\ last.threw
    /\ Invoked("searchMenu")
    /\ Len(last.before.searchResults) > 0
    /\ state.searchResults = last.before.searchResults

-----------------------------------------------------------------------------
(* C26 *)

\* C26: a search_menu call that returns zero items leaves the search cache
\* empty and a chat id stored, whatever the cache held before; the
\* add_to_basket call that follows it, with well-typed arguments and any
\* menuItemId, is not rejected by the id check: its first backend request is
\* updateBasket with that id.
C26_EmptySearchSwitchesCheckOff ==
    (Responded /\ last.name = "search_menu" /\ ~last.threw
        /\ last.response.structuredContent.items = <<>>) =>
        /\ state.searchResults = <<>>
        /\ ~Falsy(state.chatId)
        /\ \A req \in Requests :
              (req.name = "add_to_basket" /\ Parse(addToBasketSchema, req.args).ok) =>
                  \A e \in Endings(req, "ok") :
                      /\ Len(e.calls) > 0
                      /\ e.calls[1].action = "updateBasket"
                      /\ e.calls[1].args[1] = state.chatId
                      /\ e.calls[1].args[2].addMenuItems[1].menuItemId = req.args.menuItemId.n
                      /\ e.threw => StartsWith(e.response.content[1].text, "Error: API Error (")

\* a search that finds nothing while the cache holds every item
C26_Witness ==
    /\ Responded /\ last.name = "search_menu" /\ ~last.threw
    /\ last.before.searchResults = Run(MaxItem, 1)
    /\ last.response.structuredContent.items = <<>>
    /\ state.searchResults = <<>>

\* after a search, an add_to_basket with an id no search result of the
\* model holds goes to updateBasket
C26_UnknownIdPassed ==
    /\ Responded /\ last.name = "add_to_basket"
    /\ searchOrigin = "searched"
    /\ last.before.searchResults = <<>>
    /\ last.args.menuItemId = Num(MaxItem + 1)
    /\ last.calls[1].action = "updateBasket"
    /\ ~last.threw

-----------------------------------------------------------------------------
(* C27 *)

\* the schema the switch parses the arguments of a tool with; view_basket
\* and clear_basket parse nothing
SchemaOf(name) ==
    CASE name = "search_menu" -> searchMenuSchema
      [] name = "add_to_basket" -> addToBasketSchema
      [] name = "remove_from_basket" -> removeFromBasketSchema
      [] name = "submit_order" -> submitOrderSchema
      [] name = "send_otp" -> sendOtpSchema
      [] name = "verify_otp" -> verifyOtpSchema
      [] OTHER -> <<>>

\* the call is one the switch settles without a backend request: an unknown
\* tool name, arguments that do not parse, a submit_order with no token held
SettledLocally ==
    \/ last.name \notin ToolNames
    \/ ~Parse(SchemaOf(last.name), last.args).ok
    \/ last.name = "submit_order" /\ Falsy(last.before.authToken)

\* C27 as stated: a call made while no chat id is stored sends createSession
\* first, also when the switch would settle it locally, and when that
\* createSession fails the call ends with the error of a refused request,
\* not with its validation error or the authentication_required result.
C27_CreateSessionErrorEndsCall ==
    (Responded /\ Falsy(last.before.chatId) /\ SettledLocally) =>
        /\ last.calls[1].action = "createSession"
        /\ last.calls[1].status # 200 =>
              /\ last.threw
              /\ StartsWith(last.msg, "API Error (")

\* C27 amended: every dispatch that starts with no chat id stored sends
\* createSession before anything else, also when the switch would settle the
\* call locally; when that createSession fails the dispatch sends nothing
\* more and throws its error, not the validation error and not the
\* authentication_required result.  The call ends with that error unless
\* this was the first dispatch and the error text holds the marker: then the
\* call is dispatched once more and ends as that dispatch ends.  When
\* createSession succeeds a locally settled call sends no other request.
C27_SessionFirst ==
    Responded =>
        \A k \in 1..Len(last.attempts) :
            Falsy(StoredChatId(k)) =>
                LET a == last.attempts[k]
                    c == last.calls[FirstCall(k)] IN
                /\ LastCall(k) >= FirstCall(k)
                /\ c.action = "createSession"
                /\ c.status # 200 =>
                      /\ LastCall(k) = FirstCall(k)
                      /\ a.threw
                      /\ a.msg = ApiError(c.status, c.reply)
                      /\ (k = 1 /\ Includes(c.reply, Marker)) <=> (Len(last.attempts) > k)
                      /\ Len(last.attempts) = k =>
                            /\ last.threw
                            /\ last.response = ErrorResult(ApiError(c.status, c.reply))
                /\ (c.status = 200 /\ SettledLocally) =>
                      /\ LastCall(k) = FirstCall(k)
                      /\ a.threw <=> ~(last.name = "submit_order" /\ Falsy(last.before.authToken))
                      /\ a.threw => ~StartsWith(a.msg, "API Error (")

\* an unknown tool name while no chat id is stored: createSession is sent
\* and refused, and the call ends with the remote error
C27_Witness ==
    /\ Responded /\ last.name = "bogus_tool"
    /\ Falsy(last.before.chatId)
    /\ Len(last.calls) = 1
    /\ last.calls[1].action = "createSession"
    /\ last.calls[1].status = 500
    /\ last.response = ErrorResult("API Error (500): Internal Server Error")

-----------------------------------------------------------------------------
(* C28 *)

\* C28: when the createSession of the retry is refused, the call ends with
\* that error, the clearing setChatId('') is the last thing the call did to
\* the store, the stored chat id is "" and, the write having succeeded, so
\* is the chat id in the cache file; a tool call that starts with the chat
\* id "" stored sends createSession as its first request.  After the
\* clearing a chat id is stored only from the 2xx reply to the retry's
\* createSession.
C28_FailedRecoveryLeavesNoSession ==
    /\ (Responded /\ last.before.chatId = "") =>
          /\ Len(last.calls) > 0
          /\ last.calls[1].action = "createSession"
          /\ last.calls[1].args[3] = Null
    /\ (Responded /\ Len(last.attempts) = 2) =>
        LET a1 == last.attempts[1]
            c == last.calls[a1.calls + 1] IN
        /\ c.action = "createSession"
        /\ c.status # 200 =>
              /\ last.threw
              /\ last.msg = ApiError(c.status, c.reply)
              /\ Len(last.calls) = a1.calls + 1
              /\ Len(last.setters) = a1.setters + 1
              /\ state.chatId = ""
              /\ last.writes[Len(last.writes)] =>
                    cacheFile.kind = "json" /\ cacheFile.json.chatId = ""
        /\ \A i \in (a1.setters + 2)..Len(last.setters) :
              last.setters[i].fn = "setChatId" =>
                  /\ i = a1.setters + 2
                  /\ c.status = 200
                  /\ last.setters[i].chatId = c.reply.chatId

\* a call made with a chat id stored whose retry cannot create a session
C28_Witness ==
    /\ Responded /\ Len(last.attempts) = 2
    /\ ~Falsy(last.before.chatId)
    /\ last.calls[Len(last.calls)].action = "createSession"
    /\ last.calls[Len(last.calls)].status = 500
    /\ last.threw
    /\ state.chatId = ""
    /\ cacheFile.kind = "json" /\ cacheFile.json.chatId = ""


\* the call after a failed recovery: it finds the chat id "" and creates a
\* session
C28_NextCallCreatesSession ==
    /\ Responded /\ last.before.chatId = ""
    /\ Len(last.attempts) = 1
    /\ last.calls[1].action = "createSession"
    /\ last.calls[1].status = 200
    /\ state.chatId = last.calls[1].reply.chatId

-----------------------------------------------------------------------------
(* C29 *)

\* C29: the item sequence a successful search_menu returns is made of the
\* searchMenu reply as follows: a reply that is a bare array yields that
\* array, a reply that is an object with an items field yields its items, so
\* that the two wire shapes of one item sequence yield the same sequence,
\* items and order kept, the empty one included; an object without an items
\* field yields the empty sequence.
C29_BothShapesNormalize ==
    /\ (Responded /\ last.name = "search_menu" /\ ~last.threw) =>
          LET body == last.calls[Len(last.calls)].reply
              out == last.response.structuredContent.items IN
          /\ body.shape = "array" => out = body.items
          /\ (body.shape # "array" /\ "items" \in DOMAIN body) => out = body.items
          /\ (body.shape # "array" /\ "items" \notin DOMAIN body) => out = <<>>
    /\ \A xs \in SearchHits :
          /\ NormalizeSearch([shape |-> "array", items |-> xs]) = xs
          /\ NormalizeSearch([shape |-> "object", items |-> xs]) = xs
    /\ NormalizeSearch([shape |-> "object_no_items"]) = <<>>

\* a reply that is an object whose items field holds every item
C29_Witness ==
    /\ Responded /\ last.name = "search_menu" /\ ~last.threw
    /\ last.calls[Len(last.calls)].reply.shape = "object"
    /\ Len(last.calls[Len(last.calls)].reply.items) = MaxItem
    /\ last.response.structuredContent.items = last.calls[Len(last.calls)].reply.items

\* a reply that is an object without an items field
C29_NoItemsField ==
    /\ Responded /\ last.name = "search_menu" /\ ~last.threw
    /\ DOMAIN last.calls[Len(last.calls)].reply = {"shape"}
    /\ last.response.structuredContent.items = <<>>

-----------------------------------------------------------------------------
(* C30 *)

\* updateBasketItems, getRestaurantStatus and getPaymentAccounts are exported
\* by the gateway and called by no tool; here another user of the gateway
\* calls one of them between two tool calls
GatewayCall ==
    /\ pc = "idle"
    /\ \E op \in {"updateBasketItems", "getRestaurantStatus", "getPaymentAccounts"} :
       \E token \in Tokens :
         LET env == [state |-> state, file |-> cacheFile, disk |-> "ok", issued |-> issued,
                     calls |-> <<>>, setters |-> <<>>, writes |-> <<>>]
             replies ==
                 CASE op = "updateBasketItems" ->
                        UpdateBasketItems(env, OrElse(state.chatId, "chat-A"),
                            [addMenuItems |-> <<[menuItemId |-> 1, quantity |-> 1]>>], token)
                   [] op = "getRestaurantStatus" -> GetRestaurantStatus(env)
                   [] OTHER -> GetPaymentAccounts(env, token)
         IN  \E r \in replies :
               last' = [name |-> "<gateway>", op |-> op, before |-> state,
                        calls |-> r.env.calls, threw |-> ~r.ok,
                        msg |-> IF r.ok THEN "" ELSE r.msg,
                        val |-> IF r.ok THEN r.val ELSE Null]
    /\ pc' = "called"
    /\ UNCHANGED <<state, cacheFile, issued, faults, searchOrigin, verified, inflight>>
    /\ UNCHANGED widgets

GatewayNext == CallTool \/ ReadResource \/ Deliver \/ Restart \/ GatewayCall

\* the server together with a direct user of the gateway
GatewaySpec == Init /\ [][GatewayNext]_vars

\* the gateway operations a dispatch of the tool invokes after ensureSession,
\* in order, when none of them fails
ExpectedRequests(name) ==
    CASE name = "search_menu" -> <<"searchMenu">>
      [] name \in {"add_to_basket", "remove_from_basket"} -> <<"updateBasket", "getBasket">>
      [] name = "view_basket" -> <<"getBasket">>
      [] name = "clear_basket" -> <<"clearBasket">>
      [] name = "submit_order" -> <<"submitOrder">>
      [] name = "send_otp" -> <<"sendOTP">>
      [] name = "verify_otp" -> <<"verifyOTP">>
      [] OTHER -> <<>>

\* C30: a gateway operation called directly sends one request; a 2xx reply
\* is its value and a non-2xx reply makes it throw
\* "API Error (<status>): <body>".  In a tool call every invocation of a
\* gateway operation is one request: the requests of a dispatch are, after
\* the createSession of a dispatch that starts with no chat id, the
\* operations of the tool in order, each sent once; a non-2xx reply is the
\* last request of its dispatch, which throws the error with that status and
\* that body, and a 2xx reply is followed by the tool's next operation; a
\* dispatch the switch does not settle locally sends its first operation
\* whatever earlier calls fetched.
C30_OneRequestNoRetry ==
    /\ pc = "called" =>
          /\ Len(last.calls) = 1
          /\ last.threw <=> last.calls[1].status # 200
          /\ last.threw =>
                last.msg = "API Error (" \o ToString(last.calls[1].status) \o "): "
                               \o last.calls[1].reply
          /\ ~last.threw => last.val = last.calls[1].reply
    /\ Responded =>
          \A k \in 1..Len(last.attempts) :
              LET a == last.attempts[k]
                  lead == IF Falsy(StoredChatId(k)) THEN 1 ELSE 0
                  n == LastCall(k) - FirstCall(k) + 1 - lead
                  expected == ExpectedRequests(last.name)
                  local == \/ SettledLocally
                           \/ a.threw /\ StartsWith(a.msg, "Invalid menuItemId") IN
              /\ n <= Len(expected)
              /\ \A j \in 1..n :
                    last.calls[FirstCall(k) + lead + j - 1].action = expected[j]
              /\ \A i \in FirstCall(k)..LastCall(k) :
                    /\ last.calls[i].status # 200 =>
                          /\ i = LastCall(k)
                          /\ a.threw
                          /\ a.msg = "API Error (" \o ToString(last.calls[i].status) \o "): "
                                         \o last.calls[i].reply
                    /\ (/\ last.calls[i].status = 200
                        /\ ~local
                        /\ i - FirstCall(k) - lead + 1 < Len(expected)) => i < LastCall(k)
              /\ local => n = 0

\* a direct updateBasketItems that the remote service refuses
C30_Witness ==
    /\ pc = "called"
    /\ last.op = "updateBasketItems"
    /\ last.threw
    /\ last.msg = "API Error (500): Internal Server Error"
    /\ Len(last.calls) = 1

\* a view_basket right after a call that fetched the basket: the basket is
\* fetched again, and the refused request is not repeated
C30_NoCaching ==
    /\ Responded /\ last.name = "view_basket"
    /\ ~Falsy(last.before.chatId)
    /\ Len(last.calls) = 1
    /\ last.calls[1].action = "getBasket"
    /\ last.calls[1].status = 500
    /\ last.response = ErrorResult("API Error (500): Internal Server Error")

-----------------------------------------------------------------------------
(* C31 *)

\* the _meta of each entry of the tool catalog (Null: the entry has none)
tools ==
    [name \in ToolNames |->
        CASE name = "search_menu" -> WIDGET_META
          [] name \in {"view_basket", "remove_from_basket", "clear_basket"} -> BASKET_META
          [] name \in {"send_otp", "verify_otp"} -> LOGIN_META
          [] OTHER -> Null]

\* C31: the catalog entry of send_otp names the login surface, so that
\* surface is indicated for every send_otp call.  A send_otp call that
\* returns a result names the login surface in the result and its last
\* sendOTP request was answered 2xx with success = true; a dispatch whose
\* sendOTP request is refused throws the error of the refused request, and
\* one whose request is answered success = false throws the reply's error
\* text or "Failed to send OTP"; a call that fails returns the error result
\* "Error: <message>", which itself names no surface.
C31_SendOtpSurface ==
    (Responded /\ last.name = "send_otp") =>
        /\ tools[last.name].outputTemplate = LOGIN_WIDGET_URI
        /\ ~last.threw =>
              /\ Surface(last.response) = LOGIN_WIDGET_URI
              /\ ~IsErrorResult(last.response)
              /\ LET c == last.calls[Len(last.calls)] IN
                 c.action = "sendOTP" /\ c.status = 200 /\ c.reply.success
        /\ \A k \in 1..Len(last.attempts) :
              \A i \in FirstCall(k)..LastCall(k) :
                  last.calls[i].action = "sendOTP" =>
                      LET c == last.calls[i]
                          a == last.attempts[k] IN
                      /\ c.status # 200 => a.threw /\ a.msg = ApiError(c.status, c.reply)
                      /\ (c.status = 200 /\ ~c.reply.success) =>
                            /\ a.threw
                            /\ a.msg = IF c.reply.error = Undefined THEN "Failed to send OTP"
                                       ELSE c.reply.error
        /\ last.threw =>
              /\ last.response = ErrorResult(last.msg)
              /\ Surface(last.response) = Null

\* a send answered success = false without an error text: the call fails
\* with "Failed to send OTP"
C31_Witness ==
    /\ Responded /\ last.name = "send_otp"
    /\ Invoked("sendOTP")
    /\ last.calls[Len(last.calls)].status = 200
    /\ last.response = ErrorResult("Failed to send OTP")

\* a send the remote service refused
C31_RemoteError ==
    /\ Responded /\ last.name = "send_otp"
    /\ Invoked("sendOTP")
    /\ last.response = ErrorResult("API Error (500): Internal Server Error")

-----------------------------------------------------------------------------
(* The menu carousel widget: MenuItemCard *)

\* what the server and its store hold; a widget changes none of it directly
server == <<state, cacheFile, pc, last, issued, faults, searchOrigin, verified, inflight>>

\* the OptionSet objects of the page
Sets == 1..MaxSets

\* where an OptionSet may stand and none does (undefined)
NoSet == 0

\* the afterChoosingThis field of every OptionSet: another OptionSet or nothing
Heaps == [Sets -> Sets \cup {NoSet}]

\* the model stops a loop that has pushed this many entries; the code has no
\* such limit, and a loop stopped here stands for one that never returns
MaxWalk == MaxSets + 2

-----------------------------------------------------------------------------
(* C32 *)

\* a render of MenuItemCard starts: `const optionSets = []; if (isCustomizing)
\* { let current = item.menuItemOptions; ...`
RenderCard ==
    /\ walk.at \in {"idle", "done"}
    /\ \E heap \in Heaps, head \in Sets \cup {NoSet}, isCustomizing \in BOOLEAN :
         walk' = [at |-> IF isCustomizing THEN "loop" ELSE "done",
                  menuItemOptions |-> head, afterChoosingThis |-> heap,
                  isCustomizing |-> isCustomizing,
                  optionSets |-> <<>>, current |-> head]
    /\ UNCHANGED <<server, card, login, sessions, transports>>

\* variant: the loop puts each set in front of the list
WalkStepPrepend ==
    /\ walk.at = "loop"
    /\ walk.current # NoSet
    /\ Len(walk.optionSets) < MaxWalk
    /\ walk' = [walk EXCEPT !.optionSets = <<walk.current>> \o @,
                            !.current = walk.afterChoosingThis[walk.current]]
    /\ UNCHANGED <<server, card, login, sessions, transports>>

\* one turn of `while (current) { optionSets.push(current); current =
\* current.afterChoosingThis; }`
WalkStep ==
    /\ walk.at = "loop"
    /\ walk.current # NoSet
    /\ Len(walk.optionSets) < MaxWalk
    /\ walk' = [walk EXCEPT !.optionSets = Append(@, walk.current),
                            !.current = walk.afterChoosingThis[walk.current]]
    /\ UNCHANGED <<server, card, login, sessions, transports>>

\* the loop condition is false: the render goes on with optionSets
WalkExit ==
    /\ walk.at = "loop"
    /\ walk.current = NoSet
    /\ walk' = [walk EXCEPT !.at = "done"]
    /\ UNCHANGED <<server, card, login, sessions, transports>>

ChainNext == RenderCard \/ WalkStep \/ WalkExit

\* a render that has started runs on: the loop is synchronous code
ChainSpec == Init /\ [][ChainNext]_vars /\ WF_vars(WalkStep) /\ WF_vars(WalkExit)

\* the sets reached from `from` by afterChoosingThis without meeting one of
\* `seen` again; <<NoSet>> when the chain meets one
RECURSIVE ChainFrom(_, _, _)
ChainFrom(from, heap, seen) ==
    IF from = NoSet THEN <<>>
    ELSE IF from \in seen THEN <<NoSet>>
    ELSE LET rest == ChainFrom(heap[from], heap, seen \cup {from}) IN
         IF rest = <<NoSet>> THEN <<NoSet>> ELSE <<from>> \o rest

Acyclic(head, heap) == ChainFrom(head, heap, {}) # <<NoSet>>

WalkAcyclic == Acyclic(walk.menuItemOptions, walk.afterChoosingThis)

\* C32: the loop of a customizing render over an acyclic chain of n option
\* sets ends, and when it has ended optionSets holds the n sets in chain
\* order; the loop over a chain that comes back to one of its sets never
\* ends, since nothing but the end of the chain stops it.
C32_TraversalTerminates ==
    /\ [](walk.at = "done" /\ walk.isCustomizing =>
            /\ WalkAcyclic
            /\ walk.optionSets = ChainFrom(walk.menuItemOptions, walk.afterChoosingThis, {}))
    /\ [](walk.at = "loop" /\ WalkAcyclic =>
            Len(walk.optionSets) <=
                Len(ChainFrom(walk.menuItemOptions, walk.afterChoosingThis, {})))
    /\ [](walk.at = "loop" /\ ~WalkAcyclic => walk.current # NoSet)
    /\ (walk.at = "loop" /\ WalkAcyclic) ~> (walk.at = "done")

\* the loop has ended over a chain of MaxSets option sets
C32_Witness ==
    /\ walk.at = "done" /\ walk.isCustomizing
    /\ Len(walk.optionSets) = MaxSets
    /\ walk.optionSets[1] = walk.menuItemOptions

\* a chain that comes back to its first set: the loop is still running after
\* more turns than there are sets
C32_CyclicRunsOn ==
    /\ walk.at = "loop"
    /\ Len(walk.optionSets) > MaxSets

-----------------------------------------------------------------------------
(* MenuItemCard: the rule text of an option set *)

CharAt(s, i) == SubSeq(s, i, i)

UpperCase == "ABCDEFGHIJKLMNOPQRSTUVWXYZ"
LowerCase == "abcdefghijklmnopqrstuvwxyz"
Digits == "0123456789"

\* String.prototype.toLowerCase
RECURSIVE ToLowerCase(_)
ToLowerCase(s) ==
    IF s = "" THEN ""
    ELSE LET c == CharAt(s, 1)
             up == {i \in 1..26 : CharAt(UpperCase, i) = c}
         IN  (IF up = {} THEN c ELSE CharAt(LowerCase, CHOOSE i \in up : TRUE))
                 \o ToLowerCase(SubSeq(s, 2, Len(s)))

\* \s and \w of a regular expression
IsSpace(c) == c \in {" ", "\t"}
IsWord(c) == c = "_" \/ Includes(UpperCase, c) \/ Includes(LowerCase, c) \/ Includes(Digits, c)

\* A regular expression is run over s as sets of positions: a position is the
\* index of the next character to read, and each operator gives the positions
\* reached from those of P by matching one piece of the pattern.
Lit(s, P, w) ==
    {p + Len(w) : p \in {q \in P : q + Len(w) - 1 <= Len(s) /\ SubSeq(s, q, q + Len(w) - 1) = w}}

\* \s+
Spaces1(s, P) ==
    {j \in 2..(Len(s) + 1) : \E p \in P : p < j /\ \A k \in p..(j - 1) : IsSpace(CharAt(s, k))}

\* \s*
Spaces0(s, P) == P \cup Spaces1(s, P)

\* (exactly|up\s+to)?
Quantifier(s, P) ==
    P \cup Lit(s, P, "exactly") \cup Lit(s, Spaces1(s, Lit(s, P, "up")), "to")

\* \b
WordAt(s, i) == i \in 1..Len(s) /\ IsWord(CharAt(s, i))
Boundary(s, P) == {p \in P : WordAt(s, p - 1) # WordAt(s, p)}

\* /select\s+(exactly|up\s+to)?\s*1\b|choose\s+(exactly|up\s+to)?\s*(one|1)\b/
\*     .test(optionsRules.toLowerCase())
IsSingleSelect(optionsRules) ==
    LET s == ToLowerCase(optionsRules)
        anywhere == 1..(Len(s) + 1)
        select == Spaces0(s, Quantifier(s, Spaces1(s, Lit(s, anywhere, "select"))))
        choose == Spaces0(s, Quantifier(s, Spaces1(s, Lit(s, anywhere, "choose"))))
    IN  Boundary(s, Lit(s, select, "1")) \cup
        Boundary(s, Lit(s, choose, "one") \cup Lit(s, choose, "1")) # {}

\* lowerRules.includes('required')
IsRequired(optionsRules) == Includes(ToLowerCase(optionsRules), "required")

\* rule texts of the backend: a verb, a quantifier or none, a count, and the
\* rest of the text
Phrase(verb, quantifier, count, rest) ==
    verb \o " " \o (IF quantifier = "" THEN "" ELSE quantifier \o " ") \o count \o rest

RuleTexts ==
    {Phrase(v, q, n, x) : v \in {"Select", "CHOOSE", "Pick"},
                          q \in {"", "exactly", "Up To", "at least"},
                          n \in {"1", "One", "2", "10"},
                          x \in {" (Size)", " (Size, required)"}}

-----------------------------------------------------------------------------
(* MenuItemCard: state and handlers *)

\* the options of an option set (menuItemOptionSetItemId)
OptionsOf(setId) == {2 * setId - 1, 2 * setId}

\* rule texts of the cards: required single-select, optional single-select,
\* optional multi-select
CardRules ==
    {"Select exactly 1 (Size, required)", "Choose up to one (Sauce)",
     "Select up to 2 (Extras)"}

\* the two tests of a rule text, worked out once for every text of the model
isSingleSelect == [t \in RuleTexts \cup CardRules |-> IsSingleSelect(t)]
isRequired == [t \in RuleTexts \cup CardRules |-> IsRequired(t)]

\* selectedOptions = {}
NoSelection == [s \in Sets |-> <<>>]

\* the loop of a render over a chain that ends
RECURSIVE Flatten(_, _)
Flatten(current, heap) ==
    IF current = NoSet THEN <<>> ELSE <<current>> \o Flatten(heap[current], heap)

\* optionSets of the current render
OptionSets(c) ==
    IF c.isCustomizing THEN Flatten(c.item.menuItemOptions, c.afterChoosingThis) ELSE <<>>

\* optionSets[currentStep], NoSet for undefined
CurrentSet(c) ==
    IF c.currentStep + 1 \in 1..Len(OptionSets(c))
    THEN OptionSets(c)[c.currentStep + 1] ELSE NoSet

\* variant: the options form is rendered before the success state is looked at
ViewOptionsFirst(c) ==
    IF c.isCustomizing /\ CurrentSet(c) # NoSet /\ ~c.isAdding THEN "options"
    ELSE IF c.isAdded THEN "success"
    ELSE IF c.isAdding THEN "loading"
    ELSE "default"

\* which of the four returns of the render is taken
View(c) ==
    IF c.isAdded THEN "success"
    ELSE IF c.isAdding THEN "loading"
    ELSE IF c.isCustomizing /\ CurrentSet(c) # NoSet THEN "options"
    ELSE "default"

\* Object.values(finalOptions).forEach(ids => allSelectedIds.push(...ids)):
\* the keys are integers, so the values come in ascending key order
RECURSIVE AllSelectedIds(_, _)
AllSelectedIds(finalOptions, from) ==
    IF from > MaxSets THEN <<>>
    ELSE finalOptions[from] \o AllSelectedIds(finalOptions, from + 1)

\* Array.prototype.includes / filter(id => id !== optionId) on a selection
Without(ids, optionId) == SelectSeq(ids, LAMBDA id : id # optionId)

\* no callTool promise and no fallback timer is pending
NoPromise == [name |-> "none"]

\* submitOrder(finalOptions): the card after the synchronous part; `call` is
\* the pending callTool promise (or the fallback's timer) and `calls` the
\* places from which the card has issued add_to_basket so far
SubmitOrderCard(c, finalOptions) ==
    IF c.hasOpenAi
    THEN [c EXCEPT !.isAdding = TRUE,
                   !.call = [name |-> "add_to_basket",
                             menuItemId |-> c.item.menuItemId,
                             quantity |-> 1,
                             menuItemOptionSetItems |-> AllSelectedIds(finalOptions, 1)],
                   !.calls = Append(@, [view |-> View(c), step |-> c.currentStep,
                                        steps |-> Len(OptionSets(c))])]
    ELSE [c EXCEPT !.isAdding = TRUE, !.call = [name |-> "setTimeout"]]

\* the card is mounted with its item: a chain of n option sets
MountCard ==
    /\ ~card.mounted
    /\ \E n \in 0..MaxSets, rules \in [Sets -> CardRules], hasOpenAi \in BOOLEAN :
         /\ \A s \in Sets : s > n => rules[s] = "Select up to 2 (Extras)"
         /\ card' = [mounted |-> TRUE,
                     hasOpenAi |-> hasOpenAi,
                     item |-> [menuItemId |-> 1,
                               menuItemOptions |-> IF n = 0 THEN NoSet ELSE 1],
                     afterChoosingThis |-> [s \in Sets |-> IF s < n THEN s + 1 ELSE NoSet],
                     optionsRules |-> rules,
                     isCustomizing |-> FALSE, isAdding |-> FALSE, isAdded |-> FALSE,
                     selectedOptions |-> NoSelection, currentStep |-> 0,
                     timers |-> <<>>, call |-> NoPromise, calls |-> <<>>,
                     event |-> [type |-> "mount"]]
    /\ UNCHANGED <<server, walk, login, sessions, transports>>

\* the button of the default view: Customize, or Add for an item without options
ClickCard ==
    /\ card.mounted /\ View(card) = "default"
    /\ IF card.item.menuItemOptions # NoSet
       THEN card' = [card EXCEPT !.isCustomizing = TRUE, !.event = [type |-> "customize"]]
       ELSE /\ Len(card.calls) < MaxAdds
            /\ card' = [SubmitOrderCard(card, NoSelection) EXCEPT !.event = [type |-> "add"]]
    /\ UNCHANGED <<server, walk, login, sessions, transports>>

\* handleOptionToggle(optionId): a click on a row of the current option set.
\* The options view is gone once isAdding or isAdded is set; a click that
\* still reaches the handler then meets its first line.
HandleOptionToggle ==
    /\ card.mounted /\ View(card) \in {"options", "loading", "success"}
    /\ CurrentSet(card) # NoSet
    /\ \E optionId \in OptionsOf(CurrentSet(card)) :
         LET setId == CurrentSet(card)
             current == card.selectedOptions[setId]
             seen == [type |-> "toggle", setId |-> setId, optionId |-> optionId,
                      was |-> current, step |-> card.currentStep,
                      timers |-> Len(card.timers), calls |-> Len(card.calls),
                      ignored |-> card.isAdding \/ card.isAdded]
             newSelection == [card.selectedOptions EXCEPT ![setId] = <<optionId>>]
             isLastStep == card.currentStep = Len(OptionSets(card)) - 1
         IN  IF card.isAdding \/ card.isAdded
             THEN card' = [card EXCEPT !.event = seen]
             ELSE IF isSingleSelect[card.optionsRules[setId]]
             THEN IF isLastStep
                  THEN /\ Len(card.calls) < MaxAdds
                       /\ card' = [SubmitOrderCard([card EXCEPT !.selectedOptions = newSelection],
                                                   newSelection)
                                      EXCEPT !.event = seen]
                  ELSE /\ Len(card.timers) < MaxTimers
                       /\ card' = [card EXCEPT !.selectedOptions = newSelection,
                                               !.timers = Append(@, card.currentStep + 1),
                                               !.event = seen]
             ELSE card' = [card EXCEPT
                             !.selectedOptions[setId] =
                                 IF \E i \in 1..Len(current) : current[i] = optionId
                                 THEN Without(current, optionId)
                                 ELSE Append(current, optionId),
                             !.event = seen]
    /\ UNCHANGED <<server, walk, login, sessions, transports>>

\* the footer button of the options view is rendered and not disabled
NextShown(c) ==
    LET rules == c.optionsRules[CurrentSet(c)]
        hasSelection == Len(c.selectedOptions[CurrentSet(c)]) > 0
        hideNextButton == isSingleSelect[rules] /\ (isRequired[rules] \/ hasSelection)
    IN  ~hideNextButton /\ ~(isRequired[rules] /\ ~hasSelection)

HandleNext ==
    /\ card.mounted /\ View(card) = "options" /\ NextShown(card)
    /\ IF card.currentStep = Len(OptionSets(card)) - 1
       THEN /\ Len(card.calls) < MaxAdds
            /\ card' = [SubmitOrderCard(card, card.selectedOptions)
                           EXCEPT !.event = [type |-> "next"]]
       ELSE card' = [card EXCEPT !.currentStep = @ + 1, !.event = [type |-> "next"]]
    /\ UNCHANGED <<server, walk, login, sessions, transports>>

ResetCustomization(c) ==
    [c EXCEPT !.isCustomizing = FALSE, !.isAdded = FALSE, !.isAdding = FALSE,
              !.selectedOptions = NoSelection, !.currentStep = 0]

HandleBack ==
    /\ card.mounted /\ View(card) = "options"
    /\ card' = [(IF card.currentStep > 0
                 THEN [card EXCEPT !.currentStep = @ - 1]
                 ELSE ResetCustomization(card))
                   EXCEPT !.event = [type |-> "back"]]
    /\ UNCHANGED <<server, walk, login, sessions, transports>>

\* the oldest 150 ms timer fires: setCurrentStep(currentStep + 1), with the
\* currentStep of the render in which the option was picked
AutoAdvance ==
    /\ card.mounted /\ card.timers # <<>>
    /\ card' = [card EXCEPT !.currentStep = Head(card.timers),
                            !.timers = Tail(@),
                            !.event = [type |-> "timer"]]
    /\ UNCHANGED <<server, walk, login, sessions, transports>>

\* the callTool promise is fulfilled
AddResolved ==
    /\ card.mounted /\ card.call.name = "add_to_basket"
    /\ card' = [card EXCEPT !.isAdding = FALSE, !.isAdded = TRUE, !.call = NoPromise,
                            !.event = [type |-> "resolved"]]
    /\ UNCHANGED <<server, walk, login, sessions, transports>>

\* the callTool promise is rejected
AddRejected ==
    /\ card.mounted /\ card.call.name = "add_to_basket"
    /\ card' = [card EXCEPT !.isAdding = FALSE, !.call = NoPromise,
                            !.event = [type |-> "rejected"]]
    /\ UNCHANGED <<server, walk, login, sessions, transports>>

\* without window.openai.callTool: the 1000 ms timer of the fallback
MockAdded ==
    /\ card.mounted /\ card.call.name = "setTimeout"
    /\ card' = [card EXCEPT !.isAdding = FALSE, !.isAdded = TRUE, !.call = NoPromise,
                            !.event = [type |-> "mock"]]
    /\ UNCHANGED <<server, walk, login, sessions, transports>>

CardNext ==
    \/ MountCard \/ ClickCard \/ HandleOptionToggle \/ HandleNext \/ HandleBack
    \/ AutoAdvance \/ AddResolved \/ AddRejected \/ MockAdded

CardSpec == Init /\ [][CardNext]_vars

-----------------------------------------------------------------------------
(* C33 *)

\* currentStep is an index of optionSets whenever the card is customizing
StepValid == card.isCustomizing => card.currentStep \in 0..(Len(OptionSets(card)) - 1)

\* every add_to_basket of a customization was issued from the last step
AddedFromLastStep ==
    \A i \in 1..Len(card.calls) :
        IF card.calls[i].view = "options"
        THEN card.calls[i].step = card.calls[i].steps - 1
        ELSE card.calls[i].view = "default" /\ card.item.menuItemOptions = NoSet

\* C33: whenever the card is customizing, currentStep is an index of the
\* chain; it is 0 when customizing is entered; add_to_basket is issued
\* only from the last step; also when an auto-advance timer fires after Back
\* or after a reset.
C33_WalksFromFirstGroup ==
    card.mounted =>
        /\ StepValid
        /\ card.event.type = "customize" => card.currentStep = 0
        /\ AddedFromLastStep

\* the two parts of C33 that hold
C33_ValidStepLastStepAdd == card.mounted => StepValid /\ AddedFromLastStep

-----------------------------------------------------------------------------
(* C34 *)

\* C34: once isAdded is true every step of the card leaves it true, leaves
\* the selections as they are (a toggle is ignored) and issues no
\* add_to_basket; after a rejected add_to_basket the card is neither adding
\* nor added, keeps its selections and shows the view the add was issued
\* from (the options form, or the default view of an item without options),
\* whose handlers issue the add again.
C34_AddedIsPermanent ==
    /\ [][(card.mounted /\ card.isAdded) =>
              /\ card'.isAdded
              /\ card'.selectedOptions = card.selectedOptions
              /\ card'.calls = card.calls
              /\ card'.call = NoPromise]_vars
    /\ [](card.mounted /\ card.event.type = "rejected" =>
              /\ ~card.isAdding /\ ~card.isAdded
              /\ card.call = NoPromise
              /\ View(card) = IF card.item.menuItemOptions = NoSet THEN "default" ELSE "options")
    /\ [][(card.mounted /\ card.call.name = "add_to_basket" /\ card'.event.type = "rejected") =>
              card'.selectedOptions = card.selectedOptions]_vars

\* a click on an option row reaches the handler of an added card and is ignored
C34_Witness ==
    /\ card.mounted /\ card.isAdded
    /\ card.event.type = "toggle" /\ card.event.ignored

\* the add issued again after a rejected add_to_basket, and fulfilled
C34_TriedAgain ==
    /\ card.mounted /\ card.isAdded
    /\ Len(card.calls) = 2

-----------------------------------------------------------------------------
(* C36 *)

\* a card whose first option set carries any rule text of the backend
MountRules ==
    /\ ~card.mounted
    /\ \E n \in 1..2, text \in RuleTexts, hasOpenAi \in BOOLEAN :
         card' = [mounted |-> TRUE,
                  hasOpenAi |-> hasOpenAi,
                  item |-> [menuItemId |-> 1, menuItemOptions |-> 1],
                  afterChoosingThis |-> [s \in Sets |-> IF s < n THEN s + 1 ELSE NoSet],
                  optionsRules |-> [s \in Sets |-> IF s = 1 THEN text
                                                   ELSE "Select up to 2 (Extras)"],
                  isCustomizing |-> FALSE, isAdding |-> FALSE, isAdded |-> FALSE,
                  selectedOptions |-> NoSelection, currentStep |-> 0,
                  timers |-> <<>>, call |-> NoPromise, calls |-> <<>>,
                  event |-> [type |-> "mount"]]
    /\ UNCHANGED <<server, walk, login, sessions, transports>>

RulesNext ==
    \/ MountRules \/ ClickCard \/ HandleOptionToggle \/ HandleNext \/ HandleBack
    \/ AutoAdvance \/ AddResolved \/ AddRejected \/ MockAdded

RulesSpec == Init /\ [][RulesNext]_vars

\* the last event was a pick that the handler did not ignore
Picked == card.mounted /\ card.event.type = "toggle" /\ ~card.event.ignored

\* the pick replaced the selection of its set and advanced: a timer was
\* started or, on the last step, submitOrder ran
PickedAsSingle ==
    /\ card.selectedOptions[card.event.setId] = <<card.event.optionId>>
    /\ \/ Len(card.timers) = card.event.timers + 1 /\ ~card.isAdding
       \/ Len(card.timers) = card.event.timers /\ card.isAdding

\* the pick added the option to the selection of its set, or took it out,
\* and nothing advanced
PickedAsMulti ==
    /\ card.selectedOptions[card.event.setId] =
          IF \E i \in 1..Len(card.event.was) : card.event.was[i] = card.event.optionId
          THEN SelectSeq(card.event.was, LAMBDA id : id # card.event.optionId)
          ELSE card.event.was \o <<card.event.optionId>>
    /\ Len(card.timers) = card.event.timers
    /\ ~card.isAdding

\* the rule texts C36 names: "select" or "choose" in any case, then
\* "exactly" or "up to" or neither, then "1" or "one"
NamedSingleSelect ==
    {Phrase(v, q, n, x) : v \in {"Select", "CHOOSE"}, q \in {"", "exactly", "Up To"},
                          n \in {"1", "One"}, x \in {" (Size)", " (Size, required)"}}

C36_SelectTakesOnlyTheDigit ==
    Picked =>
        IF card.optionsRules[card.event.setId] \in
              NamedSingleSelect \ {Phrase("Select", q, "One", x) :
                                      q \in {"", "exactly", "Up To"},
                                      x \in {" (Size)", " (Size, required)"}}
        THEN PickedAsSingle ELSE PickedAsMulti

\* a pick under "CHOOSE Up To One (Size)" replaced the earlier pick
C36_ChooseOne ==
    /\ Picked /\ PickedAsSingle
    /\ card.optionsRules[card.event.setId] = "CHOOSE Up To One (Size)"
    /\ card.event.was # <<>>

-----------------------------------------------------------------------------
(* The login widget: LoginWidget *)

\* the login widget and not the card
others == <<server, walk, card, sessions, transports>>

\* e.target.value.replace(/\D/g, '')
RECURSIVE OnlyDigits(_)
OnlyDigits(s) ==
    IF s = "" THEN ""
    ELSE (IF Includes(Digits, CharAt(s, 1)) THEN CharAt(s, 1) ELSE "")
             \o OnlyDigits(SubSeq(s, 2, Len(s)))

\* String.prototype.slice(0, n)
Slice(s, n) == SubSeq(s, 1, IF Len(s) < n THEN Len(s) ELSE n)

\* what the user may type or paste into the two inputs
TypedPhones == {"", "+1555"}
TypedCodes == {"123", "1234", "12-34", "98765"}

\* err.message of a rejected callTool promise
Rejections == {"", "Network error"}

\* the task list without its i-th entry
Drop(tasks, i) == SubSeq(tasks, 1, i - 1) \o SubSeq(tasks, i + 1, Len(tasks))

\* the widget is mounted; its timers and promises are kept in `tasks`, and
\* `started` counts those it has started
MountLogin ==
    /\ ~login.mounted
    /\ \E hasOpenAi \in BOOLEAN :
         login' = [mounted |-> TRUE, hasOpenAi |-> hasOpenAi,
                   step |-> "phone", phoneNumber |-> "", otpCode |-> "",
                   isLoading |-> FALSE, error |-> "",
                   tasks |-> <<>>, started |-> 0,
                   verifyResolved |-> 0, submitOrders |-> 0,
                   event |-> [type |-> "mount", step |-> "phone"]]
    /\ UNCHANGED others

\* onChange of the phone input
TypePhone ==
    /\ login.mounted /\ login.step = "phone" /\ ~login.isLoading
    /\ \E v \in TypedPhones :
         /\ v # login.phoneNumber
         /\ login' = [login EXCEPT !.phoneNumber = v,
                                   !.event = [type |-> "typePhone", step |-> login.step]]
    /\ UNCHANGED others

\* handleSendOtp up to its await; without callTool the finally block runs at
\* once and a 1000 ms timer is left
HandleSendOtp ==
    /\ login.mounted /\ login.step = "phone" /\ ~login.isLoading
    /\ login.phoneNumber # ""
    /\ login.started < MaxTasks
    /\ login' = [login EXCEPT
                   !.isLoading = login.hasOpenAi,
                   !.error = "",
                   !.tasks = Append(@, [kind |-> IF login.hasOpenAi THEN "send_otp"
                                                 ELSE "mockOtp",
                                        phoneNumber |-> login.phoneNumber, code |-> ""]),
                   !.started = @ + 1,
                   !.event = [type |-> "send", step |-> login.step]]
    /\ UNCHANGED others

\* the send_otp promise is fulfilled: setStep('otp'), then finally
SendResolved ==
    /\ login.mounted
    /\ \E i \in 1..Len(login.tasks) :
         /\ login.tasks[i].kind = "send_otp"
         /\ login' = [login EXCEPT !.step = "otp", !.isLoading = FALSE,
                                   !.tasks = Drop(@, i),
                                   !.event = [type |-> "sendResolved", step |-> login.step]]
    /\ UNCHANGED others

\* the send_otp promise is rejected: catch, then finally
SendRejected ==
    /\ login.mounted
    /\ \E i \in 1..Len(login.tasks), msg \in Rejections :
         /\ login.tasks[i].kind = "send_otp"
         /\ login' = [login EXCEPT
                        !.error = IF msg = "" THEN "Failed to send code" ELSE msg,
                        !.isLoading = FALSE,
                        !.tasks = Drop(@, i),
                        !.event = [type |-> "sendRejected", step |-> login.step]]
    /\ UNCHANGED others

\* the 1000 ms timer of the fallback: setStep('otp')
MockOtp ==
    /\ login.mounted
    /\ \E i \in 1..Len(login.tasks) :
         /\ login.tasks[i].kind = "mockOtp"
         /\ login' = [login EXCEPT !.step = "otp", !.tasks = Drop(@, i),
                                   !.event = [type |-> "mockOtp", step |-> login.step]]
    /\ UNCHANGED others

\* onChange of the code input: the digits of the text, four at most; four
\* digits start the 100 ms timer, whose closure holds the phone number and
\* the code of this render
TypeOtp ==
    /\ login.mounted /\ login.step = "otp" /\ ~login.isLoading
    /\ \E typed \in TypedCodes :
         LET value == Slice(OnlyDigits(typed), 4) IN
         /\ Len(value) = 4 => login.started < MaxTasks
         /\ login' = [login EXCEPT
                        !.otpCode = value,
                        !.tasks = IF Len(value) = 4
                                  THEN Append(@, [kind |-> "timer",
                                                  phoneNumber |-> login.phoneNumber,
                                                  code |-> value])
                                  ELSE @,
                        !.started = IF Len(value) = 4 THEN @ + 1 ELSE @,
                        !.event = [type |-> "typeOtp", step |-> login.step]]
    /\ UNCHANGED others

\* the "Change number" button
ChangeNumber ==
    /\ login.mounted /\ login.step = "otp" /\ ~login.isLoading
    /\ login' = [login EXCEPT !.step = "phone", !.error = "",
                              !.event = [type |-> "changeNumber", step |-> login.step]]
    /\ UNCHANGED others

\* the 100 ms timer fires: setIsLoading(true) and callTool('verify_otp'), or
\* the fallback's 1000 ms timer
VerifyTimer ==
    /\ login.mounted
    /\ \E i \in 1..Len(login.tasks) :
         /\ login.tasks[i].kind = "timer"
         /\ \A j \in 1..(i - 1) : login.tasks[j].kind # "timer"
         /\ login' = [login EXCEPT
                        !.isLoading = IF login.hasOpenAi THEN TRUE ELSE @,
                        !.tasks[i].kind = IF login.hasOpenAi THEN "verify_otp"
                                          ELSE "mockSuccess",
                        !.event = [type |-> "verifyTimer", step |-> login.step]]
    /\ UNCHANGED others

\* the verify_otp promise is fulfilled: callTool('submit_order', {})
VerifyResolved ==
    /\ login.mounted
    /\ \E i \in 1..Len(login.tasks) :
         /\ login.tasks[i].kind = "verify_otp"
         /\ login' = [login EXCEPT
                        !.tasks[i].kind = "submit_order",
                        !.verifyResolved = @ + 1,
                        !.submitOrders = @ + 1,
                        !.event = [type |-> "verifyResolved", step |-> login.step]]
    /\ UNCHANGED others

\* the verify_otp promise is rejected: catch, then finally
VerifyRejected ==
    /\ login.mounted
    /\ \E i \in 1..Len(login.tasks), msg \in Rejections :
         /\ login.tasks[i].kind = "verify_otp"
         /\ login' = [login EXCEPT
                        !.error = IF msg = "" THEN "Invalid code" ELSE msg,
                        !.isLoading = FALSE,
                        !.tasks = Drop(@, i),
                        !.event = [type |-> "verifyRejected", step |-> login.step]]
    /\ UNCHANGED others

\* the submit_order promise settles: fulfilled with structuredContent.success,
\* fulfilled without it, or rejected; then the finally of the verify chain
SubmitSettled ==
    /\ login.mounted
    /\ \E i \in 1..Len(login.tasks), outcome \in {"success", "failed", "rejected"} :
         /\ login.tasks[i].kind = "submit_order"
         /\ login' = [login EXCEPT
                        !.step = "success",
                        !.error = IF outcome = "failed"
                                  THEN "Login successful, but order failed. Please try again."
                                  ELSE @,
                        !.isLoading = FALSE,
                        !.tasks = Drop(@, i),
                        !.event = [type |-> "submitSettled", step |-> login.step]]
    /\ UNCHANGED others

\* the 1000 ms timer of the fallback: setStep('success')
MockSuccess ==
    /\ login.mounted
    /\ \E i \in 1..Len(login.tasks) :
         /\ login.tasks[i].kind = "mockSuccess"
         /\ login' = [login EXCEPT !.step = "success", !.tasks = Drop(@, i),
                                   !.event = [type |-> "mockSuccess", step |-> login.step]]
    /\ UNCHANGED others

LoginNext ==
    \/ MountLogin \/ TypePhone \/ HandleSendOtp \/ SendResolved \/ SendRejected
    \/ MockOtp \/ TypeOtp \/ ChangeNumber \/ VerifyTimer \/ VerifyResolved
    \/ VerifyRejected \/ SubmitSettled \/ MockSuccess

LoginSpec == Init /\ [][LoginNext]_vars

-----------------------------------------------------------------------------
(* C35 *)

\* the step before and after the last event
StepChange == <<login.event.step, login.step>>

\* C35, for a widget whose host provides callTool: the step changes only
\* from phone to otp and from otp to success (or back to phone by "Change
\* number"); it becomes otp only when a send_otp call is fulfilled and
\* success only when the submit_order that follows a fulfilled verify_otp
\* has settled; every fulfilled verify_otp has issued one submit_order; a
\* rejected verify_otp leaves the step at otp with an error shown; isLoading
\* is false when the send call or the verify chain has settled.
C35_StepsInOrder ==
    (login.mounted /\ login.hasOpenAi) =>
        /\ login.event.step # login.step =>
              StepChange \in {<<"phone", "otp">>, <<"otp", "success">>, <<"otp", "phone">>}
        /\ (login.step = "otp" /\ login.event.step # "otp") =>
              login.event.type = "sendResolved"
        /\ (login.step = "success" /\ login.event.step # "success") =>
              login.event.type = "submitSettled" /\ login.verifyResolved >= 1
        /\ login.submitOrders = login.verifyResolved
        /\ login.event.type = "verifyRejected" =>
              login.step = "otp" /\ login.error # ""
        /\ login.event.type \in {"sendResolved", "sendRejected", "verifyRejected",
                                 "submitSettled"} => ~login.isLoading

\* the parts of C35 that do not depend on where the step is when the verify
\* chain ends
C35_CallsAndLoading ==
    (login.mounted /\ login.hasOpenAi) =>
        /\ (login.step = "otp" /\ login.event.step # "otp") =>
              login.event.type = "sendResolved"
        /\ (login.step = "success" /\ login.event.step # "success") =>
              login.event.type = "submitSettled" /\ login.verifyResolved >= 1
        /\ login.submitOrders = login.verifyResolved
        /\ login.event.type = "verifyRejected" => login.error # ""
        /\ login.event.type \in {"sendResolved", "sendRejected", "verifyRejected",
                                 "submitSettled"} => ~login.isLoading


\* ---------------------------------------------------------------------------
\* server.ts: the SSE transport sessions
\* ---------------------------------------------------------------------------

\* sessions.set(sessionId, record)
SessionsSet(map, id, record) ==
    [k \in DOMAIN map \cup {id} |-> IF k = id THEN record ELSE map[k]]

\* sessions.delete(sessionId)
SessionsDelete(map, id) == [k \in DOMAIN map \ {id} |-> map[k]]

\* the sessionId query parameter of a POST: absent, empty, an id a transport
\* drew, or an id no transport drew
SessionIdParams == {Null, "", "zz"} \cup {TransportIds[i] : i \in 1..Len(TransportIds)}

\* what the transport does with a message handed to it: it answers the
\* request itself, or it throws before any header is sent
TransportOutcomes == {"accepted", "threw"}

\* GET /mcp: a transport is created, its record is stored, and the connect of
\* the server to the transport is awaited
HandleSseRequest ==
    /\ \E i \in 1..Len(TransportIds) :
          /\ transports.status[i] = "none"
          /\ \A j \in 1..(i - 1) : transports.status[j] # "none"
          /\ LET sessionId == TransportIds[i] IN
                /\ sessions' = SessionsSet(sessions, sessionId,
                                           [server |-> sessionId, transport |-> sessionId])
                /\ transports' = [transports EXCEPT !.status[i] = "connecting"]
    /\ UNCHANGED <<server, walk, card, login>>

\* await server.connect(transport) returns
ConnectResolved ==
    /\ \E i \in 1..Len(TransportIds) :
          /\ transports.status[i] = "connecting"
          /\ transports' = [transports EXCEPT !.status[i] = "connected"]
    /\ UNCHANGED <<server, walk, card, login, sessions>>

\* a failed connect that leaves the record in the map
ConnectRejectedKeepsRecord ==
    /\ \E i \in 1..Len(TransportIds) :
          /\ transports.status[i] = "connecting"
          /\ transports' = [transports EXCEPT
                               !.status[i] = "failed",
                               !.response = [request |-> "GET", sessionId |-> Null,
                                             status |-> 500,
                                             body |-> "Failed to establish SSE connection",
                                             transport |-> Null, map |-> DOMAIN sessions]]
    /\ UNCHANGED <<server, walk, card, login, sessions>>

\* await server.connect(transport) throws: the record is deleted and, no
\* header having been sent, the request is answered 500
ConnectRejected ==
    /\ \E i \in 1..Len(TransportIds) :
          /\ transports.status[i] = "connecting"
          /\ sessions' = SessionsDelete(sessions, TransportIds[i])
          /\ transports' = [transports EXCEPT
                               !.status[i] = "failed",
                               !.response = [request |-> "GET", sessionId |-> Null,
                                             status |-> 500,
                                             body |-> "Failed to establish SSE connection",
                                             transport |-> Null, map |-> DOMAIN sessions]]
    /\ UNCHANGED <<server, walk, card, login>>

\* transport.onclose: the record is deleted and the server closed
TransportClosed ==
    /\ \E i \in 1..Len(TransportIds) :
          /\ transports.status[i] \in {"connecting", "connected"}
          /\ sessions' = SessionsDelete(sessions, TransportIds[i])
          /\ transports' = [transports EXCEPT !.status[i] = "closed"]
    /\ UNCHANGED <<server, walk, card, login>>

\* POST /mcp/messages
HandlePostMessage ==
    /\ \E sessionId \in SessionIdParams, outcome \in TransportOutcomes :
          LET answer(status, body, transport) ==
                  [request |-> "POST", sessionId |-> sessionId, status |-> status,
                   body |-> body, transport |-> transport, map |-> DOMAIN sessions]
          IN  transports' = [transports EXCEPT !.response =
                  IF sessionId \in {Null, ""}
                  THEN answer(400, "Missing sessionId query parameter", Null)
                  ELSE IF sessionId \notin DOMAIN sessions
                  THEN answer(404, "Unknown session", Null)
                  ELSE IF outcome = "threw"
                  THEN answer(500, "Failed to process message",
                              sessions[sessionId].transport)
                  ELSE answer(202, "Accepted", sessions[sessionId].transport)]
    /\ UNCHANGED <<server, walk, card, login, sessions>>

TransportNext ==
    \/ HandleSseRequest
    \/ ConnectResolved
    \/ ConnectRejected
    \/ TransportClosed
    \/ HandlePostMessage

TransportSpec == Init /\ [][TransportNext]_vars

\* C37: the session map holds the record of a transport from the moment its
\* SSE request is handled (the connect is then awaited) until the transport
\* closes or the connect fails, and of no other id; each record holds its own
\* transport. A POST without a sessionId is answered 400 and one for an id
\* not in the map 404, neither being handed to a transport; a POST for an id
\* in the map is handed to the transport of that id's record.
C37_SessionMapAndPosts ==
    /\ \A i \in 1..Len(TransportIds) :
          TransportIds[i] \in DOMAIN sessions
              <=> transports.status[i] \in {"connecting", "connected"}
    /\ \A id \in DOMAIN sessions :
          /\ \E i \in 1..Len(TransportIds) : TransportIds[i] = id
          /\ sessions[id].transport = id
    /\ LET r == transports.response IN
          r.request = "POST" =>
              /\ r.sessionId \in {Null, ""} => r.status = 400 /\ r.transport = Null
              /\ (r.sessionId \notin {Null, ""} /\ r.sessionId \notin r.map) =>
                    r.status = 404 /\ r.transport = Null
              /\ r.sessionId \in r.map => r.transport = r.sessionId
              /\ r.transport # Null => r.sessionId \in r.map

\* one transport is connected, one failed to connect, one has closed, and a
\* POST for the connected one was handed to it
C37_Witness ==
    /\ \E i, j, k \in 1..Len(TransportIds) :
          /\ transports.status[i] = "connected"
          /\ transports.status[j] = "failed"
          /\ transports.status[k] = "closed"
          /\ transports.response.request = "POST"
          /\ transports.response.transport = TransportIds[i]
    /\ Cardinality(DOMAIN sessions) = 1

====
